---- MODULE Spec2Model ----
(***************************************************************************)
(* A model of memflow's physical page cache (flow-core PageCache): the     *)
(* direct-mapped slot table, the two-phase should_validate / validate_page *)
(* protocol and the cached_read iterator stage that sits in front of the   *)
(* connector.                                                              *)
(*                                                                         *)
(* Spec      the public cache operations called in any order               *)
(*           (cached_page_mut, validate_page, invalidate_page) and the     *)
(*           validator policy expiring a slot.                             *)
(* SpecRead  the cached_read stage: inbound items are turned into emitted  *)
(*           items, the consumer hands emitted ToDo items to the connector *)
(*           (at any later time, in order) or drops the iterator.          *)
(***************************************************************************)
EXTENDS Integers, Sequences, FiniteSets, TLC

(***************************************************************************)
(* Bounds of the model.                                                    *)
(***************************************************************************)
\* page_size = 2^PageShift bytes
PageShift == 1
\* physical pages 0 .. MaxPage exist
MaxPage == 2
\* a cache has 1 .. MaxSlots slots
MaxSlots == 2
\* caller buffers are 1 .. MaxLen bytes long
MaxLen == 2
\* at most MaxInflight emitted items wait for the consumer
MaxInflight == 3
\* at most MaxWaiting of them are reads into caller buffers
MaxWaiting == 1
\* split_to_chunks is given buffers of at most MaxSplitLen bytes
MaxSplitLen == 5
\* a batch holds at most MaxBatch entries
MaxBatch == 2
\* the guest addresses of the file connector are 0 .. MaxGuest
MaxGuest == 2
\* a buffer handed to the file connector holds at most MaxBuf bytes
MaxBuf == 2
\* the offset file holds at most MaxRecords records
MaxRecords == 3
\* the build numbers of the records are 0 .. MaxBuild
MaxBuild == 2
\* the width of usize in the model of the mapped-file connector
UsizeBits == 3
\* SpecTrace follows at most MaxReads inbound items from the fresh cache
MaxReads == 2

RECURSIVE Pow2(_)
Pow2(n) == IF n = 0 THEN 1 ELSE 2 * Pow2(n - 1)

PageSize == Pow2(PageShift)
MaxAddr == (MaxPage + 1) * PageSize - 1
Addrs == 0 .. MaxAddr
\* PageCache::new is given a capacity in bytes, not a slot count
Sizes == PageSize .. (MaxSlots * PageSize + PageSize - 1)
\* the capacities below one page included: such a cache has no slot
Capacities == 0 .. (MaxSlots * PageSize + PageSize - 1)

(***************************************************************************)
(* Address, PageType, physical memory, validator.                          *)
(***************************************************************************)
\* Address::INVALID is the all-ones sentinel, Address::null() is zero
INVALID == -1
NULL == 0

as_page_aligned(addr, page_size) == addr - (addr % page_size)

\* PageType is a set of flags; contains is the subset test of the bit mask
Flags == {"READ_ONLY", "WRITEABLE"}
PageTypes == SUBSET Flags
contains(mask, page_type) == page_type \subseteq mask
\* the page types callers pass: with the four masks they cover a type equal
\* to, strictly inside, outside and incomparable with the mask
RequestPageTypes == {{}, {"WRITEABLE"}}

\* the byte the connector holds at physical address a (never zero, so that
\* it differs from a zero-initialised slot)
Mem(a) == a + 1
phys_read_raw_into(a, len) == [i \in 1 .. len |-> Mem(a + i - 1)]

\* CacheValidator as a per-slot flag
allocate_slots(n) == [i \in 0 .. n - 1 |-> FALSE]
is_slot_valid(v, i) == v[i]
validate_slot(v, i) == [v EXCEPT ![i] = TRUE]
invalidate_slot(v, i) == [v EXCEPT ![i] = FALSE]

(***************************************************************************)
(* PageCache: the struct is a record with the fields of the source.        *)
(***************************************************************************)
\* new that rounds the number of slots up
new_rounds_up(page_size, size, page_type_mask, v) ==
  LET cache_entries == (size + page_size - 1) \div page_size IN
  [ address |-> [i \in 0 .. cache_entries - 1 |-> INVALID],
    cache |-> [i \in 0 .. cache_entries - 1 |-> [j \in 1 .. page_size |-> 0]],
    address_once_validated |-> [i \in 0 .. cache_entries - 1 |-> INVALID],
    page_size |-> page_size,
    page_type_mask |-> page_type_mask,
    validator |-> allocate_slots(cache_entries) ]

new(page_size, size, page_type_mask, v) ==
  LET cache_entries == size \div page_size IN
  [ address |-> [i \in 0 .. cache_entries - 1 |-> INVALID],
    cache |-> [i \in 0 .. cache_entries - 1 |-> [j \in 1 .. page_size |-> 0]],
    address_once_validated |-> [i \in 0 .. cache_entries - 1 |-> INVALID],
    page_size |-> page_size,
    page_type_mask |-> page_type_mask,
    validator |-> allocate_slots(cache_entries) ]

len(c) == Cardinality(DOMAIN c.address)

\* page_index without the division by the page size
page_index_no_div(c, addr) ==
  as_page_aligned(addr, c.page_size) % len(c)

page_index(c, addr) ==
  (as_page_aligned(addr, c.page_size) \div c.page_size) % len(c)

page_from_index(c, idx) == c.cache[idx]

\* TRUE for the Ok arm of try_page, FALSE for the Err arm
try_page(c, addr) ==
  LET idx == page_index(c, addr) IN
  /\ c.address[idx] = as_page_aligned(addr, c.page_size)
  /\ is_slot_valid(c.validator, idx)

\* is_cached_page_type that takes every page type for cacheable
is_cached_page_type_any(c, page_type) == TRUE

is_cached_page_type(c, page_type) == contains(c.page_type_mask, page_type)

\* cached_page_mut with should_validate granted on every miss
cached_page_mut_all_validate(c, addr) ==
  LET aligned_addr == as_page_aligned(addr, c.page_size)
      idx == page_index(c, addr)
  IN IF try_page(c, addr)
     THEN [ self |-> c,
            entry |-> [ valid |-> TRUE, should_validate |-> FALSE,
                        address |-> aligned_addr, buf |-> idx ] ]
     ELSE LET once == IF c.address_once_validated[idx] = INVALID
                      THEN aligned_addr
                      ELSE c.address_once_validated[idx]
          IN [ self |-> [c EXCEPT !.address_once_validated[idx] = once],
               entry |-> [ valid |-> FALSE, should_validate |-> TRUE,
                           address |-> aligned_addr, buf |-> idx ] ]

\* cached_page_mut making the reservation before it looks for a hit
cached_page_mut_reserve_first(c, addr) ==
  LET aligned_addr == as_page_aligned(addr, c.page_size)
      idx == page_index(c, addr)
      once == IF c.address_once_validated[idx] = INVALID
              THEN aligned_addr
              ELSE c.address_once_validated[idx]
      c2 == [c EXCEPT !.address_once_validated[idx] = once]
  IN IF try_page(c, addr)
     THEN [ self |-> c2,
            entry |-> [ valid |-> TRUE, should_validate |-> FALSE,
                        address |-> aligned_addr, buf |-> idx ] ]
     ELSE [ self |-> c2,
            entry |-> [ valid |-> FALSE,
                        should_validate |-> (aligned_addr = once),
                        address |-> aligned_addr, buf |-> idx ] ]

\* cached_page_mut granting should_validate to the first requester only
cached_page_mut_no_join(c, addr) ==
  LET aligned_addr == as_page_aligned(addr, c.page_size)
      idx == page_index(c, addr)
  IN IF try_page(c, addr)
     THEN [ self |-> c,
            entry |-> [ valid |-> TRUE, should_validate |-> FALSE,
                        address |-> aligned_addr, buf |-> idx ] ]
     ELSE LET once == IF c.address_once_validated[idx] = INVALID
                      THEN aligned_addr
                      ELSE c.address_once_validated[idx]
          IN [ self |-> [c EXCEPT !.address_once_validated[idx] = once],
               entry |-> [ valid |-> FALSE,
                           should_validate |->
                              (c.address_once_validated[idx] = INVALID),
                           address |-> aligned_addr, buf |-> idx ] ]

\* cached_page_mut taking the reservation over from another page
cached_page_mut_steal(c, addr) ==
  LET aligned_addr == as_page_aligned(addr, c.page_size)
      idx == page_index(c, addr)
  IN IF try_page(c, addr)
     THEN [ self |-> c,
            entry |-> [ valid |-> TRUE, should_validate |-> FALSE,
                        address |-> aligned_addr, buf |-> idx ] ]
     ELSE [ self |-> [c EXCEPT !.address_once_validated[idx] = aligned_addr],
            entry |-> [ valid |-> FALSE, should_validate |-> TRUE,
                        address |-> aligned_addr, buf |-> idx ] ]

\* the CacheEntry returned and the cache after the call; buf is the slot
\* the entry's buffer points at
cached_page_mut(c, addr) ==
  LET aligned_addr == as_page_aligned(addr, c.page_size)
      idx == page_index(c, addr)
  IN IF try_page(c, addr)
     THEN [ self |-> c,
            entry |-> [ valid |-> TRUE, should_validate |-> FALSE,
                        address |-> aligned_addr, buf |-> idx ] ]
     ELSE LET once == IF c.address_once_validated[idx] = INVALID
                      THEN aligned_addr
                      ELSE c.address_once_validated[idx]
          IN [ self |-> [c EXCEPT !.address_once_validated[idx] = once],
               entry |-> [ valid |-> FALSE,
                           should_validate |-> (aligned_addr = once),
                           address |-> aligned_addr, buf |-> idx ] ]

\* the debug_assert_eq of validate_page
validate_assert(c, addr) ==
  c.address_once_validated[page_index(c, addr)]
     = as_page_aligned(addr, c.page_size)

\* validate_page without the check of the page type against the mask
validate_page_any_type(c, addr, page_type) ==
  LET idx == page_index(c, addr)
      aligned_addr == as_page_aligned(addr, c.page_size)
  IN [c EXCEPT !.address[idx] = aligned_addr,
               !.validator = validate_slot(c.validator, idx),
               !.address_once_validated[idx] = INVALID]

\* validate_page that commits the reservation: it moves slot_pending_addr
\* into slot_addr instead of writing aligned(addr)
validate_page_commits_pending(c, addr, page_type) ==
  IF contains(c.page_type_mask, page_type)
  THEN LET idx == page_index(c, addr)
       IN [c EXCEPT !.address[idx] = c.address_once_validated[idx],
                    !.validator = validate_slot(c.validator, idx),
                    !.address_once_validated[idx] = INVALID]
  ELSE c

\* validate_page that leaves the reservation in place
validate_page_keeps_pending(c, addr, page_type) ==
  IF contains(c.page_type_mask, page_type)
  THEN LET idx == page_index(c, addr)
           aligned_addr == as_page_aligned(addr, c.page_size)
       IN [c EXCEPT !.address[idx] = aligned_addr,
                    !.validator = validate_slot(c.validator, idx)]
  ELSE c

\* validate_page running to its end (the assertion holds or is compiled out)
validate_page(c, addr, page_type) ==
  IF contains(c.page_type_mask, page_type)
  THEN LET idx == page_index(c, addr)
           aligned_addr == as_page_aligned(addr, c.page_size)
       IN [c EXCEPT !.address[idx] = aligned_addr,
                    !.validator = validate_slot(c.validator, idx),
                    !.address_once_validated[idx] = INVALID]
  ELSE c

\* validate_page stopped by the failing debug assertion: slot_addr and the
\* validator are already written, address_once_validated is not
validate_page_panic(c, addr, page_type) ==
  LET idx == page_index(c, addr)
      aligned_addr == as_page_aligned(addr, c.page_size)
  IN [c EXCEPT !.address[idx] = aligned_addr,
               !.validator = validate_slot(c.validator, idx)]

\* the outcomes of one validate_page call over the builds: a build with
\* debug assertions panics when the assertion fails, one without returns
validate_page_outcomes(c, addr, page_type) ==
  {[self |-> validate_page(c, addr, page_type), panic |-> FALSE]}
  \cup
  (IF contains(c.page_type_mask, page_type) /\ ~validate_assert(c, addr)
   THEN {[self |-> validate_page_panic(c, addr, page_type), panic |-> TRUE]}
   ELSE {})

\* invalidate_page that does not tell the validator
invalidate_page_keeps_valid(c, addr, page_type) ==
  IF contains(c.page_type_mask, page_type)
  THEN LET idx == page_index(c, addr)
       IN [c EXCEPT !.address[idx] = NULL,
                    !.address_once_validated[idx] = INVALID]
  ELSE c

invalidate_page(c, addr, page_type) ==
  IF contains(c.page_type_mask, page_type)
  THEN LET idx == page_index(c, addr)
       IN [c EXCEPT !.address[idx] = NULL,
                    !.validator = invalidate_slot(c.validator, idx),
                    !.address_once_validated[idx] = INVALID]
  ELSE c

(***************************************************************************)
(* State.                                                                  *)
(***************************************************************************)
VARIABLES
  self,         \* the PageCache
  outstanding,  \* the should_validate entries handed out and not yet settled
  last,         \* the last operation, with the cache before it and its result
                \* (repeat: the operation before it was the same call)
  panicked,     \* the program has panicked
  inflight,     \* cached_read: the items emitted and not yet consumed
  lastDone,     \* cached_read: the last caller item that was finalised
  trace,        \* cached_read: the inbound reads and the reads the connector
                \* executed, in order (kept by SpecTrace only)
  translator,   \* the Win32VirtualTranslate (SpecVat)
  connector,    \* the FileIoMemory: its reader and its memory map (SpecFile)
  builder,      \* the Win32OffsetBuilder (SpecOffsets)
  offsets_bin   \* the records of the offset file built into the program

vars == <<self, outstanding, last, panicked, inflight, lastDone, trace,
          translator, connector, builder, offsets_bin>>

NoTranslator == [kind |-> "none"]
NoConnector == [kind |-> "none"]
NoBuilder == [kind |-> "none"]

NoItem == [by |-> "none"]

Init ==
  /\ \E size \in Sizes, mask \in PageTypes :
        self = new(PageSize, size, mask, <<>>)
  /\ outstanding = {}
  /\ last = [op |-> "new"]
  /\ panicked = FALSE
  /\ inflight = <<>>
  /\ lastDone = NoItem
  /\ trace = <<>>
  /\ translator = NoTranslator
  /\ connector = NoConnector
  /\ builder = NoBuilder
  /\ offsets_bin = <<>>

Slots == DOMAIN self.address

(***************************************************************************)
(* The public operations.                                                  *)
(***************************************************************************)
CachedPageMut(addr) ==
  LET r == cached_page_mut(self, addr) IN
  /\ ~panicked
  /\ self' = r.self
  /\ outstanding' = IF r.entry.should_validate
                    THEN outstanding \cup {<<r.entry.buf, r.entry.address>>}
                    ELSE outstanding
  /\ last' = [op |-> "cached_page_mut", addr |-> addr, pre |-> self,
              entry |-> r.entry]
  /\ UNCHANGED <<panicked, inflight, lastDone>>

\* the call op(addr, page_type) directly follows the same call
Repeats(op, addr, page_type) ==
  /\ last.op = op
  /\ last.addr = addr
  /\ last.page_type = page_type

Settle(addr, page_type) ==
  IF contains(self.page_type_mask, page_type)
  THEN {e \in outstanding : e[1] # page_index(self, addr)}
  ELSE outstanding

ValidatePage(addr, page_type) ==
  /\ ~panicked
  /\ \E o \in validate_page_outcomes(self, addr, page_type) :
        /\ self' = o.self
        /\ panicked' = o.panic
  /\ outstanding' = Settle(addr, page_type)
  /\ last' = [op |-> "validate_page", addr |-> addr, page_type |-> page_type,
              pre |-> self, repeat |-> Repeats("validate_page", addr, page_type)]
  /\ UNCHANGED <<inflight, lastDone>>

InvalidatePage(addr, page_type) ==
  /\ ~panicked
  /\ self' = invalidate_page(self, addr, page_type)
  /\ outstanding' = Settle(addr, page_type)
  /\ last' = [op |-> "invalidate_page", addr |-> addr, page_type |-> page_type,
              pre |-> self, repeat |-> Repeats("invalidate_page", addr, page_type)]
  /\ UNCHANGED <<panicked, inflight, lastDone>>

\* the validator policy stops reporting a slot valid (timeout, generation bump)
ValidatorExpire(i) ==
  /\ ~panicked
  /\ i \in Slots
  /\ is_slot_valid(self.validator, i)
  /\ self' = [self EXCEPT !.validator = invalidate_slot(self.validator, i)]
  /\ last' = [op |-> "expire", slot |-> i, pre |-> self]
  /\ UNCHANGED <<outstanding, panicked, inflight, lastDone>>

Next ==
  /\ \/ \E addr \in Addrs : CachedPageMut(addr)
     \/ \E addr \in Addrs, page_type \in RequestPageTypes : ValidatePage(addr, page_type)
     \/ \E addr \in Addrs, page_type \in RequestPageTypes : InvalidatePage(addr, page_type)
     \/ \E i \in Slots : ValidatorExpire(i)
  /\ UNCHANGED <<trace, translator, connector, builder, offsets_bin>>

Spec == Init /\ [][Next]_vars

(***************************************************************************)
(* cached_read: the closure of the flat_map, applied to one inbound item.  *)
(***************************************************************************)
None == [some |-> FALSE]
Some(page_type) == [some |-> TRUE, page_type |-> page_type]

\* A buffer is the caller's (its bytes travel with the item) or a slot of the
\* cache.  The slot buffer of an emitted ToDo is the unsafe re-borrow of the
\* slot: it is the slot's memory itself, so the connector's write lands in
\* self.cache when the item is executed, and a hit that is served before
\* then reads what the slot holds at that moment.
OutBuf(data) == [kind |-> "out", data |-> data]
SlotBuf(idx) == [kind |-> "slot", idx |-> idx]
ToDo(addr, buf) == [tag |-> "ToDo", addr |-> addr, buf |-> buf]
DoneOk(addr, buf) == [tag |-> "Done", res |-> "Ok", addr |-> addr, buf |-> buf]
DoneErr == [tag |-> "Done", res |-> "Err"]

PhysicalAddress(address, page) == [address |-> address, page |-> page]

\* the outcomes of the closure on inbound item x: the cache afterwards, the
\* items pushed to ret, and whether the closure panicked
\* cached_read that validates and pushes the slot fill on every miss, without
\* looking at should_validate
cached_read_item_fill_every_miss(c, x) ==
  IF x.tag = "ToDo" /\ x.addr.page.some
     /\ is_cached_page_type(c, x.addr.page.page_type)
  THEN LET r == cached_page_mut(c, x.addr.address)
           cached_page == r.entry
       IN IF ~cached_page.valid
          THEN { [ self |-> o.self,
                   ret |-> IF o.panic THEN <<>>
                           ELSE << x, ToDo(PhysicalAddress(cached_page.address, None),
                                           SlotBuf(cached_page.buf)) >>,
                   panic |-> o.panic ] :
                 o \in validate_page_outcomes(r.self, x.addr.address,
                                              x.addr.page.page_type) }
          ELSE LET page == page_from_index(r.self, page_index(r.self, x.addr.address))
                   start == x.addr.address - as_page_aligned(x.addr.address, c.page_size)
                   n == Len(x.buf.data)
               IN IF start + n > Len(page)
                  THEN { [self |-> r.self, ret |-> <<>>, panic |-> TRUE] }
                  ELSE { [ self |-> r.self,
                           ret |-> << DoneOk(x.addr,
                                       OutBuf(SubSeq(page, start + 1, start + n))) >>,
                           panic |-> FALSE ] }
  ELSE { [self |-> c, ret |-> <<x>>, panic |-> FALSE] }

cached_read_item(c, x) ==
  IF x.tag = "ToDo" /\ x.addr.page.some
     /\ is_cached_page_type(c, x.addr.page.page_type)
  THEN LET r == cached_page_mut(c, x.addr.address)
           cached_page == r.entry
       IN IF ~cached_page.valid
          THEN IF cached_page.should_validate
               THEN { [ self |-> o.self,
                        ret |-> IF o.panic THEN <<>>
                                ELSE << x, ToDo(PhysicalAddress(cached_page.address, None),
                                                SlotBuf(cached_page.buf)) >>,
                        panic |-> o.panic ] :
                      o \in validate_page_outcomes(r.self, x.addr.address,
                                                   x.addr.page.page_type) }
               ELSE { [self |-> r.self, ret |-> <<x>>, panic |-> FALSE] }
          ELSE LET aligned_addr == as_page_aligned(x.addr.address, c.page_size)
                   page == page_from_index(r.self, page_index(r.self, x.addr.address))
                   start == x.addr.address - aligned_addr
                   n == Len(x.buf.data)
               IN IF start + n > Len(page)
                  THEN \* the slice start..start+out.len() is out of range
                       { [self |-> r.self, ret |-> <<>>, panic |-> TRUE] }
                  ELSE { [ self |-> r.self,
                           ret |-> << DoneOk(x.addr,
                                       OutBuf(SubSeq(page, start + 1, start + n))) >>,
                           panic |-> FALSE ] }
  ELSE { [self |-> c, ret |-> <<x>>, panic |-> FALSE] }

(***************************************************************************)
(* The cached_read stage with its consumer and the connector.              *)
(***************************************************************************)
Zeros(n) == [i \in 1 .. n |-> 0]
\* a buffer of n bytes that differ from one another: the i-th is i
Payload(n) == [i \in 1 .. n |-> i]

\* the items a caller can send into cached_read
InboundItems ==
  { ToDo(PhysicalAddress(a, p), OutBuf(Zeros(n))) :
      a \in Addrs, n \in 1 .. MaxLen,
      p \in {None} \cup {Some(t) : t \in RequestPageTypes} }
  \cup {DoneErr}

IsFill(it) == it.tag = "ToDo" /\ it.buf.kind = "slot"
IsCallerRead(it) == it.tag = "ToDo" /\ it.buf.kind = "out"

SelectToDo(s) == SelectSeq(s, LAMBDA it : it.tag = "ToDo")
SelectDone(s) == SelectSeq(s, LAMBDA it : it.tag = "Done")
Waiting(s) == Len(SelectSeq(s, IsCallerRead))

\* the consumer pulls the items the closure makes of the next inbound item x;
\* Done items are final when they are emitted, ToDo items wait in inflight
ReadItem(x) ==
  /\ ~panicked
  /\ \E o \in cached_read_item(self, x) :
        /\ Len(inflight) + Len(SelectToDo(o.ret)) <= MaxInflight
        /\ Waiting(inflight \o o.ret) <= MaxWaiting
        /\ self' = o.self
        /\ panicked' = o.panic
        /\ inflight' = inflight \o SelectToDo(o.ret)
        /\ lastDone' = IF SelectDone(o.ret) # <<>>
                       THEN [ item |-> Head(SelectDone(o.ret)),
                              by |-> IF x.tag = "Done" THEN "inbound" ELSE "cache" ]
                       ELSE NoItem
        /\ last' = [op |-> "cached_read", item |-> x, pre |-> self, ret |-> o.ret]
  /\ UNCHANGED outstanding

\* the connector executes the oldest emitted ToDo: phys_read_raw_into
Consume ==
  /\ ~panicked
  /\ inflight # <<>>
  /\ LET it == Head(inflight) IN
       IF IsFill(it)
       THEN /\ self' = [self EXCEPT !.cache[it.buf.idx] =
                           phys_read_raw_into(it.addr.address, self.page_size)]
            /\ lastDone' = NoItem
       ELSE /\ self' = self
            /\ lastDone' =
                 [ item |-> DoneOk(it.addr,
                              OutBuf(phys_read_raw_into(it.addr.address,
                                                        Len(it.buf.data)))),
                   by |-> "connector" ]
  /\ inflight' = Tail(inflight)
  /\ last' = [op |-> "step"]
  /\ UNCHANGED <<outstanding, panicked>>

\* the consumer drops the iterator and the items it holds unexecuted
DropBatch ==
  /\ ~panicked
  /\ inflight # <<>>
  /\ inflight' = <<>>
  /\ lastDone' = NoItem
  /\ last' = [op |-> "drop"]
  /\ UNCHANGED <<self, outstanding, panicked>>

\* between two batches (nothing borrowed from the cache) a page is invalidated
\* (the write path); the operation is InvalidatePage without the record in last
InvalidateBetween(addr, page_type) ==
  /\ ~panicked
  /\ inflight = <<>>
  /\ self' = invalidate_page(self, addr, page_type)
  /\ lastDone' = NoItem
  /\ last' = [op |-> "step"]
  /\ UNCHANGED <<outstanding, panicked, inflight>>

\* ValidatorExpire without the record in last
ExpireDuring(i) ==
  /\ ~panicked
  /\ i \in Slots
  /\ is_slot_valid(self.validator, i)
  /\ self' = [self EXCEPT !.validator = invalidate_slot(self.validator, i)]
  /\ lastDone' = NoItem
  /\ last' = [op |-> "step"]
  /\ UNCHANGED <<outstanding, panicked, inflight>>

NextRead ==
  /\ \/ \E x \in InboundItems : ReadItem(x)
     \/ Consume
     \/ DropBatch
     \/ \E addr \in Addrs, page_type \in RequestPageTypes : InvalidateBetween(addr, page_type)
     \/ \E i \in Slots : ExpireDuring(i)
  /\ UNCHANGED <<trace, translator, connector, builder, offsets_bin>>

SpecRead == Init /\ [][NextRead]_vars

(***************************************************************************)
(* Construction with any capacity, followed by cached_page_mut calls.      *)
(***************************************************************************)
InitNew ==
  /\ \E size \in Capacities, mask \in PageTypes :
        /\ self = new(PageSize, size, mask, <<>>)
        /\ last = [op |-> "new", size |-> size]
  /\ outstanding = {}
  /\ panicked = FALSE
  /\ inflight = <<>>
  /\ lastDone = NoItem
  /\ trace = <<>>
  /\ translator = NoTranslator
  /\ connector = NoConnector
  /\ builder = NoBuilder
  /\ offsets_bin = <<>>

\* page_index takes the remainder by the number of slots: with no slot the
\* division by zero panics
page_index_panics(c) == len(c) = 0

Access(addr) ==
  IF page_index_panics(self)
  THEN /\ ~panicked
       /\ panicked' = TRUE
       /\ last' = [op |-> "cached_page_mut", addr |-> addr, pre |-> self]
       /\ UNCHANGED <<self, outstanding, inflight, lastDone>>
  ELSE CachedPageMut(addr)

NextNew ==
  /\ \E addr \in Addrs : Access(addr)
  /\ UNCHANGED <<trace, translator, connector, builder, offsets_bin>>

SpecNew == InitNew /\ [][NextNew]_vars


(* reserved and left unsettled between two batches.                        *)
(***************************************************************************)
\* cached_page_mut called between two batches, the entry dropped unsettled
ReserveBetween(addr) ==
  /\ inflight = <<>>
  /\ CachedPageMut(addr)

NextMixed ==
  /\ \/ \E addr \in Addrs : ReserveBetween(addr)
     \/ \E x \in InboundItems : ReadItem(x)
     \/ Consume
  /\ UNCHANGED <<trace, translator, connector, builder, offsets_bin>>

SpecMixed == Init /\ [][NextMixed]_vars

(***************************************************************************)
(* split_to_chunks: one item of the stream split at the page boundaries.   *)
(***************************************************************************)
Min(a, b) == IF a <= b THEN a ELSE b

\* PageChunksMut::create_from(out, addr, page_size): the sub-buffers of out
\* with their addresses, each ending at the next page boundary at the latest
RECURSIVE create_from(_, _, _)
create_from(out, addr, page_size) ==
  IF out = <<>>
  THEN <<>>
  ELSE LET n == Min(Len(out), page_size - (addr % page_size))
       IN <<[paddr |-> addr, chunk |-> SubSeq(out, 1, n)]>>
          \o create_from(SubSeq(out, n + 1, Len(out)), addr + n, page_size)

\* split_to_chunks with every chunk at the address of the whole item
split_to_chunks_same_addr(iter_elem, page_size) ==
  IF iter_elem.tag = "ToDo"
  THEN LET chunks == create_from(iter_elem.buf.data, iter_elem.addr.address, page_size)
       IN [ ret |-> [k \in 1 .. Len(chunks) |->
                       ToDo(PhysicalAddress(iter_elem.addr.address, iter_elem.addr.page),
                            OutBuf(chunks[k].chunk))],
            panic |-> FALSE ]
  ELSE [ret |-> <<>>, panic |-> TRUE]

\* split_to_chunks with every chunk at the start of its page
split_to_chunks_aligned(iter_elem, page_size) ==
  IF iter_elem.tag = "ToDo"
  THEN LET chunks == create_from(iter_elem.buf.data, iter_elem.addr.address, page_size)
       IN [ ret |-> [k \in 1 .. Len(chunks) |->
                       ToDo(PhysicalAddress(as_page_aligned(chunks[k].paddr, page_size),
                                            iter_elem.addr.page),
                            OutBuf(chunks[k].chunk))],
            panic |-> FALSE ]
  ELSE [ret |-> <<>>, panic |-> TRUE]

\* the items split_to_chunks yields for iter_elem, or the panic of its else arm
split_to_chunks(iter_elem, page_size) ==
  IF iter_elem.tag = "ToDo"
  THEN LET chunks == create_from(iter_elem.buf.data, iter_elem.addr.address, page_size)
       IN [ ret |-> [k \in 1 .. Len(chunks) |->
                       ToDo(PhysicalAddress(chunks[k].paddr, iter_elem.addr.page),
                            OutBuf(chunks[k].chunk))],
            panic |-> FALSE ]
  ELSE [ret |-> <<>>, panic |-> TRUE]

\* the splitter scenario of the specification: 10000 bytes from six bytes
\* below the second 4 KiB page
ScenarioPageSize == Pow2(12)
ScenarioStart == Pow2(12) - 6
ScenarioLen == 10000
ScenarioItem == ToDo(PhysicalAddress(ScenarioStart, None), OutBuf(Payload(ScenarioLen)))

\* the page sizes of the caches split_to_chunks runs on
SplitPageSizes == {Pow2(k) : k \in 0 .. PageShift + 1} \cup {ScenarioPageSize}

\* the items a caller can pass to split_to_chunks
SplitItems ==
  { ToDo(PhysicalAddress(a, p), OutBuf(Payload(n))) :
      a \in Addrs, n \in 1 .. MaxSplitLen,
      p \in {None} \cup {Some(t) : t \in RequestPageTypes} }
  \cup {ScenarioItem}
  \cup {DoneErr}
  \cup {DoneOk(PhysicalAddress(a, None), OutBuf(phys_read_raw_into(a, 1))) : a \in Addrs}

InitSplit ==
  /\ \E page_size \in SplitPageSizes, mask \in PageTypes :
        self = new(page_size, page_size, mask, <<>>)
  /\ outstanding = {}
  /\ last = [op |-> "new"]
  /\ panicked = FALSE
  /\ inflight = <<>>
  /\ lastDone = NoItem
  /\ trace = <<>>
  /\ translator = NoTranslator
  /\ connector = NoConnector
  /\ builder = NoBuilder
  /\ offsets_bin = <<>>

\* an item is split into MaxSplitLen chunks at most
SplitToChunks(x) ==
  LET r == split_to_chunks(x, self.page_size) IN
  /\ ~panicked
  /\ x.tag = "ToDo" => Len(x.buf.data) <= MaxSplitLen * self.page_size
  /\ panicked' = r.panic
  /\ last' = [op |-> "split_to_chunks", item |-> x, pre |-> self, ret |-> r.ret]
  /\ UNCHANGED <<self, outstanding, inflight, lastDone, trace,
                 translator, connector, builder, offsets_bin>>

NextSplit == \E x \in SplitItems : SplitToChunks(x)

SpecSplit == InitSplit /\ [][NextSplit]_vars

(***************************************************************************)
(* The stage followed from a fresh cache over a few inbound reads, with    *)
(* the history of what entered it and what the connector executed.         *)
(***************************************************************************)
IsRead(e) == e.ev = "read"
IsConnector(e) == e.ev = "connector"

\* an inbound item enters the stage; waiting: the items then still in flight
IssueRead(x) ==
  /\ Len(SelectSeq(trace, IsRead)) < MaxReads
  /\ ReadItem(x)
  /\ trace' = Append(trace, [ev |-> "read", item |-> x, waiting |-> Len(inflight)])

\* the connector executes the oldest emitted ToDo: a read of len bytes at address
Execute ==
  /\ Consume
  /\ trace' = Append(trace,
                 [ev |-> "connector",
                  address |-> Head(inflight).addr.address,
                  len |-> IF IsFill(Head(inflight))
                          THEN Len(page_from_index(self, Head(inflight).buf.idx))
                          ELSE Len(Head(inflight).buf.data)])

NextTrace ==
  /\ \/ \E x \in InboundItems : IssueRead(x)
     \/ Execute
  /\ UNCHANGED <<translator, connector, builder, offsets_bin>>

SpecTrace == Init /\ [][NextTrace]_vars

(***************************************************************************)
(* Win32VirtualTranslate and the single-address virt_to_phys.              *)
(***************************************************************************)
\* ArchitectureIdent
Unknown == [ident |-> "Unknown"]
X86(bits, address_extensions) ==
  [ident |-> "X86", bits |-> bits, address_extensions |-> address_extensions]
AArch64(page_size) == [ident |-> "AArch64", page_size |-> page_size]

ArchitectureIdents ==
  {Unknown}
  \cup {X86(bits, ext) : bits \in {32, 64}, ext \in BOOLEAN}
  \cup {AArch64(page_size) : page_size \in {4096, 16384}}

\* ArchitectureObj: the four statics of the crate, and an Architecture
\* implemented by a third party
ArchitectureObjs == {"x32", "x32_pae", "x64", "aarch64", "third_party"}

\* From<ArchitectureIdent> for ArchitectureObj: the object, or the panic of
\* the last match arm
into_obj(arch) ==
  CASE arch = X86(32, FALSE) -> [panic |-> FALSE, obj |-> "x32"]
    [] arch = X86(32, TRUE) -> [panic |-> FALSE, obj |-> "x32_pae"]
    [] arch = X86(64, FALSE) -> [panic |-> FALSE, obj |-> "x64"]
    [] arch = AArch64(4096) -> [panic |-> FALSE, obj |-> "aarch64"]
    [] OTHER -> [panic |-> TRUE]

\* x86::new_translator(dtb, arch) and arm::new_translator_nonsplit(dtb, arch)
\* return Ok for the architectures of their family
x86_new_translator(dtb, arch) == arch \in {"x32", "x32_pae", "x64"}
arm_new_translator_nonsplit(dtb, arch) == arch = "aarch64"

\* a synthetic page table under dtb: the even virtual pages are mapped
Dtbs == {4096, 8191, 8192, 8193}
VirtAddrs == {0, 4095, 4096, 8197}
PageMapped(dtb, virt) == (virt \div 4096) % 2 = 0
PagePhys(dtb, virt) == as_page_aligned(dtb, 4096) + 4096 + virt

\* the batched walk of a translator that could be built: every entry goes to
\* out or to out_fail
RECURSIVE walk(_, _)
walk(dtb, addrs) ==
  IF addrs = <<>>
  THEN [out |-> <<>>, out_fail |-> <<>>]
  ELSE LET e == Head(addrs)
           r == walk(dtb, Tail(addrs))
       IN IF PageMapped(dtb, e.addr)
          THEN [r EXCEPT !.out = <<[phys |-> PagePhys(dtb, e.addr), buf |-> e.buf]>> \o @]
          ELSE [r EXCEPT !.out_fail =
                  <<[err |-> "PageNotPresent", addr |-> e.addr, buf |-> e.buf]>> \o @]

\* Win32VirtualTranslate::virt_to_phys_iter: what reached the two sinks, or
\* the panic of the else arm
virt_to_phys_iter(t, addrs) ==
  IF x86_new_translator(t.dtb, t.sys_arch)
  THEN [panic |-> FALSE] @@ walk(t.dtb, addrs)
  ELSE IF arm_new_translator_nonsplit(t.dtb, t.sys_arch)
  THEN [panic |-> FALSE] @@ walk(t.dtb, addrs)
  ELSE [panic |-> TRUE, out |-> <<>>, out_fail |-> <<>>]

\* translation_table_id that takes the page of the address argument
translation_table_id_of_address(t, address) == address \div 4096

\* self.dtb.as_u64().overflowing_shr(12).0 as usize, usize being 64 bits wide
translation_table_id(t, address) == t.dtb \div 4096

OptNone == [is_some |-> FALSE]
OptSome(v) == [is_some |-> TRUE, value |-> v]

\* the success sink of virt_to_phys, fed the elements in order
RECURSIVE extend_success(_, _)
extend_success(output, elems) ==
  IF elems = <<>>
  THEN output
  ELSE extend_success(IF ~output.is_some THEN OptSome(Head(elems).phys) ELSE output,
                      Tail(elems))

\* the failure sink of virt_to_phys
RECURSIVE extend_fail(_, _)
extend_fail(output_err, elems) ==
  IF elems = <<>>
  THEN output_err
  ELSE extend_fail(OptSome(Head(elems).err), Tail(elems))

Ok(v) == [res |-> "Ok", value |-> v]
Err(e) == [res |-> "Err", error |-> e]

\* the last line of virt_to_phys, after a walk that emitted out and out_fail:
\* unwrap panics when neither sink was given anything
virt_to_phys_result(w) ==
  LET output == extend_success(OptNone, w.out)
      output_err == extend_fail(OptNone, w.out_fail)
  IN IF output.is_some THEN [panic |-> FALSE, ret |-> Ok(output.value)]
     ELSE IF output_err.is_some THEN [panic |-> FALSE, ret |-> Err(output_err.value)]
     ELSE [panic |-> TRUE]

\* VirtualTranslate3::virt_to_phys of the Win32VirtualTranslate
virt_to_phys(t, addr) ==
  LET w == virt_to_phys_iter(t, <<[addr |-> addr, buf |-> 1]>>)
  IN IF w.panic THEN [panic |-> TRUE] ELSE virt_to_phys_result(w)

\* the batches virt_to_phys_iter is given
VirtBatches ==
  UNION { [1 .. n -> {[addr |-> a, buf |-> 1] : a \in VirtAddrs}] : n \in 0 .. MaxBatch }

cacheVars == <<self, outstanding, inflight, lastDone, trace>>

InitVat ==
  /\ self = new(PageSize, PageSize, {}, <<>>)
  /\ outstanding = {}
  /\ last = [op |-> "none"]
  /\ panicked = FALSE
  /\ inflight = <<>>
  /\ lastDone = NoItem
  /\ trace = <<>>
  /\ translator = NoTranslator
  /\ connector = NoConnector
  /\ builder = NoBuilder
  /\ offsets_bin = <<>>

\* Win32VirtualTranslate::new(arch, dtb)
NewTranslate(arch, dtb) ==
  LET r == into_obj(arch) IN
  /\ ~panicked
  /\ translator = NoTranslator
  /\ panicked' = r.panic
  /\ translator' = IF r.panic THEN translator
                   ELSE [kind |-> "Win32VirtualTranslate", sys_arch |-> r.obj, dtb |-> dtb]
  /\ last' = [op |-> "Win32VirtualTranslate::new", arch |-> arch, dtb |-> dtb]
  /\ UNCHANGED <<cacheVars, connector, builder, offsets_bin>>

\* the struct built from its public fields
LiteralTranslate(sys_arch, dtb) ==
  /\ ~panicked
  /\ translator = NoTranslator
  /\ translator' = [kind |-> "Win32VirtualTranslate", sys_arch |-> sys_arch, dtb |-> dtb]
  /\ last' = [op |-> "literal", sys_arch |-> sys_arch, dtb |-> dtb]
  /\ UNCHANGED <<cacheVars, panicked, connector, builder, offsets_bin>>

VirtToPhysIter(addrs) ==
  LET r == virt_to_phys_iter(translator, addrs) IN
  /\ ~panicked
  /\ translator # NoTranslator
  /\ panicked' = r.panic
  /\ last' = [op |-> "virt_to_phys_iter", addrs |-> addrs,
              out |-> r.out, out_fail |-> r.out_fail]
  /\ UNCHANGED <<cacheVars, translator, connector, builder, offsets_bin>>

VirtToPhys(addr) ==
  LET r == virt_to_phys(translator, addr) IN
  /\ ~panicked
  /\ translator # NoTranslator
  /\ panicked' = r.panic
  /\ last' = IF r.panic THEN [op |-> "virt_to_phys", addr |-> addr]
             ELSE [op |-> "virt_to_phys", addr |-> addr, ret |-> r.ret]
  /\ UNCHANGED <<cacheVars, translator, connector, builder, offsets_bin>>

TranslationTableId(address) ==
  /\ ~panicked
  /\ translator # NoTranslator
  /\ last' = [op |-> "translation_table_id", address |-> address,
              ret |-> translation_table_id(translator, address)]
  /\ UNCHANGED <<cacheVars, panicked, translator, connector, builder, offsets_bin>>

NextVat ==
  \/ \E arch \in ArchitectureIdents, dtb \in Dtbs : NewTranslate(arch, dtb)
  \/ \E sys_arch \in ArchitectureObjs, dtb \in Dtbs : LiteralTranslate(sys_arch, dtb)
  \/ \E addrs \in VirtBatches : VirtToPhysIter(addrs)
  \/ \E addr \in VirtAddrs : VirtToPhys(addr)
  \/ \E address \in VirtAddrs : TranslationTableId(address)

SpecVat == InitVat /\ [][NextVat]_vars

(***************************************************************************)
(* The file connector (connector/fileio.rs).  The reader is the byte       *)
(* sequence of the file; a seek past its end succeeds, read_exact past its *)
(* end fails, a write past its end grows it.  The memory map and map_iter  *)
(* follow the specification's section 4.5.                                 *)
(***************************************************************************)
Max(a, b) == IF a >= b THEN a ELSE b

\* the guest addresses the batches name
GuestAddrs == 0 .. MaxGuest
\* the file starts filled with FileFill and the caller's read buffers with
\* Stale; the i-th byte a write carries is i
FileFill == 0
Stale == 9

Mapping(base, out, size) == [base |-> base, out |-> out, size |-> size]
\* the memory maps: ordered by guest base, guest_len = connector_len
MemoryMaps ==
  { <<>>,
    <<Mapping(1, 0, 2)>>,
    <<Mapping(0, 1, 2)>>,
    <<Mapping(0, 1, 1), Mapping(1, 0, 1)>> }
Readers == { [i \in 1 .. 2 |-> FileFill] }

\* the part of entry e (the idx-th of the batch) that mapping m covers
MapHit(m, e) == Max(e.addr, m.base) < Min(e.addr + Len(e.buf), m.base + m.size)
MapSeg(m, idx, e) ==
  LET lo == Max(e.addr, m.base)
      hi == Min(e.addr + Len(e.buf), m.base + m.size)
  IN [file_off |-> m.out + (lo - m.base), idx |-> idx, pos |-> lo - e.addr,
      len |-> hi - lo]

\* MemoryMap::map_iter: the mapped segments of the batch, in order; the
\* unmapped remainders go to the failure extender
RECURSIVE map_iter_from(_, _, _)
map_iter_from(mem_map, data, idx) ==
  IF idx > Len(data) THEN [out |-> <<>>, out_fail |-> <<>>]
  ELSE LET e == data[idx]
           hits == SelectSeq(mem_map, LAMBDA m : MapHit(m, e))
           segs == [k \in 1 .. Len(hits) |-> MapSeg(hits[k], idx, e)]
           miss == { p \in 0 .. Len(e.buf) - 1 :
                       \A k \in 1 .. Len(segs) :
                          p < segs[k].pos \/ p >= segs[k].pos + segs[k].len }
           rest == map_iter_from(mem_map, data, idx + 1)
       IN [out |-> segs \o rest.out,
           out_fail |-> (IF miss = {} THEN <<>>
                         ELSE <<[idx |-> idx, addr |-> e.addr, miss |-> miss]>>)
                        \o rest.out_fail]
map_iter(mem_map, data) == map_iter_from(mem_map, data, 1)

\* FnExtend::void(): whatever is sunk into it is dropped
void(elems) == <<>>

\* the outcomes of the reader's calls: none fails, or the at-th segment's
\* seek fails, its read or write fails, or its write stores all bytes of the
\* segment but the last
NoFault == [at |-> 0, kind |-> "none"]
Faults ==
  {NoFault}
  \cup { [at |-> k, kind |-> kd] : k \in 1 .. MaxBatch, kd \in {"seek", "io", "short"} }

\* the ErrorKind of each of the reader's operations
KindOf(operation) ==
  CASE operation = "seek" -> "UnableToSeekFile"
    [] operation = "read_exact" -> "UnableToReadFile"
    [] operation = "write" -> "UnableToWriteFile"

ErrConnector(kind) == Err([origin |-> "Connector", kind |-> kind])
OkUnit == Ok("()")

\* Read::read_exact at file offset off: the bytes, or a failure at the end
\* of the file
read_exact_fails(reader, off, n) == off + n > Len(reader)
\* Write::write at file offset off stores the first n bytes of bytes
WriteAt(reader, off, bytes, n) ==
  [i \in 1 .. Max(Len(reader), off + n) |->
     IF i > off /\ i <= off + n THEN bytes[i - off]
     ELSE IF i <= Len(reader) THEN reader[i] ELSE FileFill]

\* the buffer of the idx-th entry with the n bytes of the file from offset
\* off on written at position pos
Filled(data, s, reader, n) ==
  [data EXCEPT ![s.idx].buf =
     [i \in 1 .. Len(@) |->
        IF i > s.pos /\ i <= s.pos + n THEN reader[s.file_off + (i - s.pos)] ELSE @[i]]]

\* the bytes read_exact has stored when it fails at the end of the file
Available(reader, s) == Max(0, Min(s.len, Len(reader) - s.file_off))

\* the loop of phys_read_raw_list that goes on after a failure and returns Ok
RECURSIVE read_segs_skip_failed(_, _, _, _, _)
read_segs_skip_failed(reader, segs, data, k, fault) ==
  IF k > Len(segs) THEN [ret |-> OkUnit, data |-> data, failed |-> "none"]
  ELSE LET s == segs[k] IN
       IF (fault.at = k /\ fault.kind \in {"seek", "io"})
          \/ read_exact_fails(reader, s.file_off, s.len)
       THEN read_segs_skip_failed(reader, segs, data, k + 1, fault)
       ELSE read_segs_skip_failed(reader, segs, Filled(data, s, reader, s.len),
                                  k + 1, fault)

\* the loop of phys_read_raw_list over the mapped segments, from the k-th
RECURSIVE read_segs(_, _, _, _, _)
read_segs(reader, segs, data, k, fault) ==
  IF k > Len(segs) THEN [ret |-> OkUnit, data |-> data, failed |-> "none"]
  ELSE LET s == segs[k] IN
       IF fault.at = k /\ fault.kind = "seek"
       THEN [ret |-> ErrConnector("UnableToSeekFile"), data |-> data, failed |-> "seek"]
       ELSE IF fault.at = k /\ fault.kind = "io"
       THEN [ret |-> ErrConnector("UnableToWriteFile"), data |-> data,
             failed |-> "read_exact"]
       ELSE IF read_exact_fails(reader, s.file_off, s.len)
       THEN [ret |-> ErrConnector("UnableToWriteFile"),
             data |-> Filled(data, s, reader, Available(reader, s)),
             failed |-> "read_exact"]
       ELSE read_segs(reader, segs, Filled(data, s, reader, s.len), k + 1, fault)

\* FileIoMemory::phys_read_raw_list
phys_read_raw_list(c, data, fault) ==
  LET m == map_iter(c.mem_map, data)
      sunk == void(m.out_fail)
  IN read_segs(c.reader, m.out, data, 1, fault)

\* the loop of phys_write_raw_list over the mapped segments, from the k-th
RECURSIVE write_segs(_, _, _, _, _)
write_segs(reader, segs, data, k, fault) ==
  IF k > Len(segs) THEN [ret |-> OkUnit, reader |-> reader, failed |-> "none"]
  ELSE LET s == segs[k]
           bytes == [i \in 1 .. s.len |-> data[s.idx].buf[s.pos + i]]
           n == IF fault.at = k /\ fault.kind = "short" THEN s.len - 1 ELSE s.len
       IN
       IF fault.at = k /\ fault.kind = "seek"
       THEN [ret |-> ErrConnector("UnableToSeekFile"), reader |-> reader, failed |-> "seek"]
       ELSE IF fault.at = k /\ fault.kind = "io"
       THEN [ret |-> ErrConnector("UnableToWriteFile"), reader |-> reader,
             failed |-> "write"]
       ELSE write_segs(WriteAt(reader, s.file_off, bytes, n), segs, data, k + 1, fault)

\* FileIoMemory::phys_write_raw_list
phys_write_raw_list(c, data, fault) ==
  LET m == map_iter(c.mem_map, data)
      sunk == void(m.out_fail)
  IN write_segs(c.reader, m.out, data, 1, fault)

\* the batches: PhysicalReadData(addr, out) and PhysicalWriteData(addr, bytes)
ReadEntries ==
  { [addr |-> a, buf |-> [i \in 1 .. n |-> Stale]] : a \in GuestAddrs, n \in 1 .. MaxBuf }
WriteEntries ==
  { [addr |-> a, buf |-> Payload(n)] : a \in GuestAddrs, n \in 1 .. MaxBuf }
\* one entry, or two one-byte entries at different addresses
Batches(entries) ==
  { <<e>> : e \in entries }
  \cup { b \in { e \in entries : Len(e.buf) = 1 } \X { e \in entries : Len(e.buf) = 1 } :
           b[1].addr # b[2].addr }

fileVars == <<self, outstanding, inflight, lastDone, trace, translator,
             builder, offsets_bin>>

\* the call before: the write it was, or no write
NoWrite == [op |-> "none"]
Call(l) ==
  IF l.op = "phys_write_raw_list"
  THEN [op |-> l.op, data |-> l.data, ret |-> l.ret] ELSE NoWrite

\* FileIoMemory::try_with_reader
TryWithReader(reader, mem_map) ==
  /\ connector = NoConnector
  /\ builder = NoBuilder
  /\ offsets_bin = <<>>
  /\ connector' = [kind |-> "FileIoMemory", reader |-> reader, mem_map |-> mem_map]
  /\ last' = [op |-> "try_with_reader", prev |-> Call(last)]
  /\ UNCHANGED <<fileVars, panicked>>

PhysReadRawList(data, fault) ==
  LET r == phys_read_raw_list(connector, data, fault) IN
  /\ connector # NoConnector
  /\ fault.kind # "short"
  /\ fault.at <= Len(map_iter(connector.mem_map, data).out)
  /\ last' = [op |-> "phys_read_raw_list", data |-> data, fault |-> fault,
              ret |-> r.ret, failed |-> r.failed, out |-> r.data, prev |-> Call(last)]
  /\ UNCHANGED <<fileVars, panicked, connector>>

PhysWriteRawList(data, fault) ==
  LET r == phys_write_raw_list(connector, data, fault) IN
  /\ connector # NoConnector
  /\ fault.at <= Len(map_iter(connector.mem_map, data).out)
  /\ connector' = [connector EXCEPT !.reader = r.reader]
  /\ last' = [op |-> "phys_write_raw_list", data |-> data, fault |-> fault,
              ret |-> r.ret, failed |-> r.failed, prev |-> Call(last)]
  /\ UNCHANGED <<fileVars, panicked>>

NextFile ==
  \/ \E reader \in Readers, mem_map \in MemoryMaps : TryWithReader(reader, mem_map)
  \/ \E data \in Batches(ReadEntries), fault \in Faults : PhysReadRawList(data, fault)
  \/ \E data \in Batches(WriteEntries), fault \in Faults : PhysWriteRawList(data, fault)

SpecFile == InitVat /\ [][NextFile]_vars

(***************************************************************************)
(* cached_read_single: one read through the cache, the connector called    *)
(* synchronously for every slot fill.                                      *)
(***************************************************************************)
\* the outcomes of the connector's reads: none fails, or the read for the
\* at-th chunk fails, the slot buffer left as it was or already overwritten
NoReadFault == [at |-> 0, dirty |-> FALSE]
ReadFaults ==
  {NoReadFault} \cup { [at |-> k, dirty |-> d] : k \in 1 .. MaxLen, d \in BOOLEAN }

ErrRead == Err("connector read")

\* the for loop of cached_read_single from the k-th chunk; first is the
\* address of out[1]; debug: the build has debug assertions
RECURSIVE read_single_chunks(_, _, _, _, _, _, _, _)
read_single_chunks(c, chunks, k, first, out, page_type, fault, debug) ==
  IF k > Len(chunks)
  THEN [self |-> c, ret |-> OkUnit, out |-> out, panic |-> FALSE, fill_failed |-> INVALID]
  ELSE LET paddr == chunks[k].paddr
           n == Len(chunks[k].chunk)
           r == cached_page_mut(c, paddr)
           cached_page == r.entry
           fails == cached_page.should_validate /\ fault.at = k
           filled == IF cached_page.should_validate /\ (~fails \/ fault.dirty)
                     THEN [r.self EXCEPT !.cache[cached_page.buf] =
                             phys_read_raw_into(cached_page.address, c.page_size)]
                     ELSE r.self
           start == paddr - cached_page.address
           pos == paddr - first
           copied == IF cached_page.valid \/ cached_page.should_validate
                     THEN [i \in 1 .. Len(out) |->
                             IF i > pos /\ i <= pos + n
                             THEN page_from_index(filled, cached_page.buf)[start + (i - pos)]
                             ELSE out[i]]
                     ELSE out
       IN IF fails
          THEN [self |-> filled, ret |-> ErrRead, out |-> out, panic |-> FALSE,
                fill_failed |-> cached_page.address]
          ELSE IF cached_page.should_validate
          THEN IF debug /\ contains(c.page_type_mask, page_type)
                  /\ ~validate_assert(filled, paddr)
               THEN [self |-> validate_page_panic(filled, paddr, page_type),
                     ret |-> OkUnit, out |-> copied, panic |-> TRUE, fill_failed |-> INVALID]
               ELSE read_single_chunks(validate_page(filled, paddr, page_type), chunks,
                                       k + 1, first, copied, page_type, fault, debug)
          ELSE read_single_chunks(filled, chunks, k + 1, first, copied, page_type,
                                  fault, debug)

\* cached_read_single(mem, addr, out): the cache afterwards, the result, the
\* bytes of out and the page whose slot fill failed, if one did
cached_read_single(c, addr, out, fault, debug) ==
  IF addr.page.some
  THEN IF is_cached_page_type(c, addr.page.page_type)
       THEN read_single_chunks(c, create_from(out, addr.address, c.page_size), 1,
                               addr.address, out, addr.page.page_type, fault, debug)
       ELSE IF fault.at = 1
            THEN [self |-> c, ret |-> ErrRead, out |-> out, panic |-> FALSE, fill_failed |-> INVALID]
            ELSE [self |-> c, ret |-> OkUnit,
                  out |-> phys_read_raw_into(addr.address, Len(out)), panic |-> FALSE, fill_failed |-> INVALID]
  ELSE [self |-> c, ret |-> OkUnit, out |-> out, panic |-> FALSE, fill_failed |-> INVALID]

\* the addresses cached_read_single is called with
SingleAddrs ==
  { PhysicalAddress(a, p) : a \in Addrs, p \in {None, Some({"WRITEABLE"})} }

\* a cache that takes the page type of these addresses, or one that does not
InitSingle ==
  /\ \E size \in Sizes, mask \in {{}, {"WRITEABLE"}} :
        self = new(PageSize, size, mask, <<>>)
  /\ outstanding = {}
  /\ last = [op |-> "new"]
  /\ panicked = FALSE
  /\ inflight = <<>>
  /\ lastDone = NoItem
  /\ trace = <<>>
  /\ translator = NoTranslator
  /\ connector = NoConnector
  /\ builder = NoBuilder
  /\ offsets_bin = <<>>

\* debug: a build with debug assertions stops at a failing assertion
CachedReadSingle(addr, n, fault) ==
  LET out == [i \in 1 .. n |-> Stale]
      checked == cached_read_single(self, addr, out, fault, TRUE)
  IN \E debug \in (IF checked.panic THEN BOOLEAN ELSE {TRUE}) :
     LET r == IF debug THEN checked
              ELSE cached_read_single(self, addr, out, fault, FALSE)
     IN
     /\ ~panicked
     /\ self' = r.self
     /\ panicked' = r.panic
     /\ last' = [op |-> "cached_read_single", addr |-> addr,
                 ret |-> r.ret, out |-> r.out, fill_failed |-> r.fill_failed]
     /\ UNCHANGED <<outstanding, inflight, lastDone>>

\* a reservation made and dropped between two reads
ReserveSingle(addr) ==
  /\ ~panicked
  /\ self' = cached_page_mut(self, addr).self
  /\ last' = [op |-> "step"]
  /\ UNCHANGED <<outstanding, panicked, inflight, lastDone>>

NextSingle ==
  /\ \/ \E addr \in SingleAddrs, n \in 1 .. MaxLen, fault \in ReadFaults :
          CachedReadSingle(addr, n, fault)
     \/ \E addr \in Addrs : ReserveSingle(addr)
     \/ \E addr \in Addrs : InvalidateBetween(addr, {"WRITEABLE"})
     \/ \E i \in Slots : ExpireDuring(i)
  /\ UNCHANGED <<trace, translator, connector, builder, offsets_bin>>

SpecSingle == InitSingle /\ [][NextSingle]_vars

(***************************************************************************)
(* Both read paths on one cache: batches through cached_read and, between  *)
(* two batches, single reads and reservations dropped unsettled.           *)
(***************************************************************************)
\* the iterator of cached_read borrows the cache: cached_read_single runs
\* only when no batch is under way and its finished items are taken
SingleBetween(addr, n, fault) ==
  /\ inflight = <<>>
  /\ lastDone = NoItem
  /\ CachedReadSingle(addr, n, fault)

\* the inbound items of the page type the cache takes, and those without a
\* page descriptor
BothItems ==
  { x \in InboundItems : x.tag = "ToDo" => x.addr \in SingleAddrs }

InitBoth ==
  /\ \E size \in Sizes : self = new(PageSize, size, {"WRITEABLE"}, <<>>)
  /\ outstanding = {}
  /\ last = [op |-> "new"]
  /\ panicked = FALSE
  /\ inflight = <<>>
  /\ lastDone = NoItem
  /\ trace = <<>>
  /\ translator = NoTranslator
  /\ connector = NoConnector
  /\ builder = NoBuilder
  /\ offsets_bin = <<>>

NextBoth ==
  /\ \/ \E x \in BothItems : ReadItem(x)
     \/ Consume
     \/ \E addr \in SingleAddrs, n \in 1 .. MaxLen, fault \in ReadFaults :
          SingleBetween(addr, n, fault)
     \/ \E addr \in Addrs : ReserveBetween(addr)
  /\ UNCHANGED <<trace, translator, connector, builder, offsets_bin>>

SpecBoth == InitBoth /\ [][NextBoth]_vars

(***************************************************************************)
(* Win32OffsetBuilder (memflow-win32/src/offsets/mod.rs).  The offset file *)
(* built into the program is a list of fixed-size records; the offsets of  *)
(* a record are named by the position of the record in the file.           *)
(***************************************************************************)
\* a record string that is not valid text: <&str>::try_from fails on it
NotText == [text |-> FALSE]
Text(str) == [text |-> TRUE, str |-> str]
\* <&str>::try_from(&record string)
str_try_from(b) == IF b.text THEN Ok(b.str) ELSE Err("not text")

Win32GUID(file_name, guid) == [file_name |-> file_name, guid |-> guid]
\* (major, minor, build) of a Win32Version
Win32Version(major, minor, build) ==
  [nt_major_version |-> major, nt_minor_version |-> minor, nt_build_number |-> build]
major_version(winver) == winver.nt_major_version
minor_version(winver) == winver.nt_minor_version
build_number(winver) == winver.nt_build_number

\* the names and versions the records of the file carry
RecordNames ==
  { <<Text("ntkrnlmp.pdb"), Text("G1")>>, <<Text("ntkrnlmp.pdb"), Text("G2")>>,
    <<NotText, Text("G1")>> }
RecordVersions ==
  { Win32Version(10, 0, b) : b \in 0 .. MaxBuild } \cup { Win32Version(10, 1, 1), Win32Version(6, 0, MaxBuild) }
\* the offset files: up to MaxRecords records, the k-th with the offsets k
OffsetFiles ==
  UNION { { [k \in 1 .. n |->
               [ pdb_file_name |-> f[k][1][1], pdb_guid |-> f[k][1][2],
                 nt_major_version |-> f[k][2].nt_major_version,
                 nt_minor_version |-> f[k][2].nt_minor_version,
                 nt_build_number |-> f[k][2].nt_build_number,
                 offsets |-> k ]] :
            f \in [1 .. n -> RecordNames \X RecordVersions] } : n \in 0 .. MaxRecords }

\* what the callers ask for
RequestGuids ==
  { Win32GUID("ntkrnlmp.pdb", "G1"), Win32GUID("ntkrnlmp.pdb", "G2"),
    Win32GUID("ntoskrnl.pdb", "G1") }
RequestVersions ==
  { Win32Version(10, 0, 1), Win32Version(10, 0, MaxBuild), Win32Version(10, 1, 0) }

Win32Offsets(offsets) == [offsets |-> offsets]
\* the offsets read from a downloaded PDB: those of no record of the file
PdbOffsets == Win32Offsets(0)
ErrOther(msg) == Err([Other |-> msg])

\* the guid loop of build_with_offset_list from the k-th record
RECURSIVE guid_match(_, _, _)
guid_match(bytes, target_guid, k) ==
  IF k > Len(bytes) THEN OptNone
  ELSE LET offsets == bytes[k]
           file == str_try_from(offsets.pdb_file_name)
           guid == str_try_from(offsets.pdb_guid)
       IN IF file.res = "Ok" /\ guid.res = "Ok"
             /\ target_guid.file_name = file.value /\ target_guid.guid = guid.value
          THEN OptSome(Win32Offsets(offsets.offsets))
          ELSE guid_match(bytes, target_guid, k + 1)

\* the version loop that takes the first record that fits and keeps it
RECURSIVE closest_first(_, _, _, _, _)
closest_first(bytes, winver, k, closest_match, prev_build_number) ==
  IF k > Len(bytes) THEN closest_match
  ELSE LET offsets == bytes[k] IN
       IF major_version(winver) = offsets.nt_major_version
          /\ minor_version(winver) = offsets.nt_minor_version
          /\ build_number(winver) >= offsets.nt_build_number
          /\ ~closest_match.is_some
       THEN closest_first(bytes, winver, k + 1,
                          OptSome(Win32Offsets(offsets.offsets)), offsets.nt_build_number)
       ELSE closest_first(bytes, winver, k + 1, closest_match, prev_build_number)

\* the version loop of build_with_offset_list from the k-th record
RECURSIVE closest(_, _, _, _, _)
closest(bytes, winver, k, closest_match, prev_build_number) ==
  IF k > Len(bytes) THEN closest_match
  ELSE LET offsets == bytes[k] IN
       IF major_version(winver) = offsets.nt_major_version
          /\ minor_version(winver) = offsets.nt_minor_version
          /\ build_number(winver) >= offsets.nt_build_number
          /\ prev_build_number <= offsets.nt_build_number
       THEN closest(bytes, winver, k + 1,
                    OptSome(Win32Offsets(offsets.offsets)), offsets.nt_build_number)
       ELSE closest(bytes, winver, k + 1, closest_match, prev_build_number)

build_with_offset_list(b, bytes) ==
  LET exact == IF b.guid.is_some THEN guid_match(bytes, b.guid.value, 1) ELSE OptNone
      closest_match == IF b.winver.is_some
                       THEN closest(bytes, b.winver.value, 1, OptNone, 0)
                       ELSE OptNone
  IN IF exact.is_some THEN Ok(exact.value)
     ELSE IF closest_match.is_some THEN Ok(closest_match.value)
     ELSE ErrOther("not found")

\* the outcomes of the symbol store: the download fails, the PDB lacks a
\* structure, or the offsets are read from it
StoreOutcomes == {"load fails", "pdb fails", "ok"}

\* build_with_symbol_store; symstore: the compilation feature
build_with_symbol_store(b, symstore, outcome) ==
  IF ~symstore
  THEN ErrOther("symbol store is deactivated via a compilation feature")
  ELSE IF b.symbol_store.is_some
  THEN IF b.guid.is_some
       THEN CASE outcome = "load fails" -> ErrOther("load")
              [] outcome = "pdb fails" -> Err([PDB |-> "not found"])
              [] outcome = "ok" -> Ok(PdbOffsets)
       ELSE ErrOther("symbol store can only be used with a guid")
  ELSE ErrOther("symbol store is disabled")

\* build that asks the offset list before the symbol store
build_list_first(b, bytes, symstore, outcome) ==
  IF ~b.guid.is_some /\ ~b.winver.is_some
  THEN ErrOther("building win32 offsets requires either a guid or winver")
  ELSE LET list == build_with_offset_list(b, bytes)
           store == build_with_symbol_store(b, symstore, outcome)
       IN IF list.res = "Ok" THEN list
          ELSE IF store.res = "Ok" THEN store
          ELSE ErrOther("not found")

\* Win32OffsetBuilder::build
build(b, bytes, symstore, outcome) ==
  IF ~b.guid.is_some /\ ~b.winver.is_some
  THEN ErrOther("building win32 offsets requires either a guid or winver")
  ELSE LET store == build_with_symbol_store(b, symstore, outcome)
           list == build_with_offset_list(b, bytes)
       IN IF store.res = "Ok" THEN store
          ELSE IF list.res = "Ok" THEN list
          ELSE ErrOther("not found")

offsetFrame ==
  <<self, outstanding, panicked, inflight, lastDone, trace, translator, connector>>

InitOffsets ==
  /\ self = new(PageSize, PageSize, {}, <<>>)
  /\ outstanding = {}
  /\ last = [op |-> "none"]
  /\ panicked = FALSE
  /\ inflight = <<>>
  /\ lastDone = NoItem
  /\ trace = <<>>
  /\ translator = NoTranslator
  /\ connector = NoConnector
  /\ builder = NoBuilder
  /\ offsets_bin \in OffsetFiles

\* Win32OffsetBuilder::new
NewBuilder ==
  /\ builder = NoBuilder
  /\ builder' = [kind |-> "Win32OffsetBuilder", symbol_store |-> OptSome("default"),
                 guid |-> OptNone, winver |-> OptNone]
  /\ last' = [op |-> "builder"]
  /\ UNCHANGED <<offsetFrame, offsets_bin>>

NoSymbolStore ==
  /\ builder # NoBuilder
  /\ builder' = [builder EXCEPT !.symbol_store = OptNone]
  /\ last' = [op |-> "builder"]
  /\ UNCHANGED <<offsetFrame, offsets_bin>>

SetGuid(guid) ==
  /\ builder # NoBuilder
  /\ builder' = [builder EXCEPT !.guid = OptSome(guid)]
  /\ last' = [op |-> "builder"]
  /\ UNCHANGED <<offsetFrame, offsets_bin>>

SetWinver(winver) ==
  /\ builder # NoBuilder
  /\ builder' = [builder EXCEPT !.winver = OptSome(winver)]
  /\ last' = [op |-> "builder"]
  /\ UNCHANGED <<offsetFrame, offsets_bin>>

\* build consumes the builder; last keeps it
Build(symstore, outcome) ==
  /\ builder # NoBuilder
  /\ builder' = NoBuilder
  /\ last' = [op |-> "build", b |-> builder,
              store |-> build_with_symbol_store(builder, symstore, outcome),
              list |-> build_with_offset_list(builder, offsets_bin),
              ret |-> build(builder, offsets_bin, symstore, outcome)]
  /\ UNCHANGED <<offsetFrame, offsets_bin>>

NextOffsets ==
  \/ NewBuilder
  \/ NoSymbolStore
  \/ \E guid \in RequestGuids : SetGuid(guid)
  \/ \E winver \in RequestVersions : SetWinver(winver)
  \/ \E symstore \in BOOLEAN, outcome \in StoreOutcomes : Build(symstore, outcome)

SpecOffsets == InitOffsets /\ [][NextOffsets]_vars

(***************************************************************************)
(* MmapInfo::try_with_bufmap and MmapInfoMut::try_with_bufmap_mut          *)
(* (connector/filemap.rs).  usize is UsizeBits wide: a build with overflow *)
(* checks panics where the sum leaves the type, one without wraps.         *)
(***************************************************************************)
UsizeMax == Pow2(UsizeBits) - 1
wrapping(x) == x % Pow2(UsizeBits)

\* the entries (base, (output_base, size)) of the input map
MapEntries ==
  { [base |-> b, output_base |-> o, size |-> sz] :
      b \in {0, 4}, o \in {0, 1, 2, 5}, sz \in {0, 1, 3, UsizeMax} }
\* the input maps: up to two entries, ordered by base
InputMaps ==
  {<<>>} \cup { <<e>> : e \in MapEntries }
  \cup { m \in MapEntries \X MapEntries : m[1].base < m[2].base }
BufLens == 0 .. 3

ErrOutOfRange == Err([origin |-> "Connector", kind |-> "MemoryMapOutOfRange"])

\* the for loop of try_with_bufmap from the k-th entry: the result and the
\* slices pushed to new_map, each the len bytes of the buffer from start on
RECURSIVE bufmap_loop(_, _, _, _, _)
bufmap_loop(map, k, buf_len, new_map, checks) ==
  IF k > Len(map) THEN [ret |-> Ok(new_map), panic |-> FALSE]
  ELSE LET base == map[k].base
           output_base == map[k].output_base
           size == map[k].size
       IN IF output_base >= buf_len
          THEN [ret |-> ErrOutOfRange, panic |-> FALSE]
          ELSE IF checks /\ output_base + size > UsizeMax
          THEN [ret |-> Ok(new_map), panic |-> TRUE]
          ELSE LET output_end == Min(wrapping(output_base + size), buf_len)
               IN bufmap_loop(map, k + 1, buf_len,
                              Append(new_map,
                                     [base |-> base, start |-> output_base,
                                      len |-> wrapping(output_end - output_base)]),
                              checks)

\* MmapInfo::try_with_bufmap(buf, map); checks: the build checks overflow
try_with_bufmap(buf_len, map, checks) == bufmap_loop(map, 1, buf_len, <<>>, checks)

\* MmapInfoMut::try_with_bufmap_mut(buf, map)
try_with_bufmap_mut(buf_len, map, checks) == bufmap_loop(map, 1, buf_len, <<>>, checks)

TryWithBufmap(buf_len, map, checks) ==
  LET r == try_with_bufmap(buf_len, map, checks) IN
  /\ ~panicked
  /\ connector = NoConnector
  /\ panicked' = r.panic
  /\ connector' = IF ~r.panic /\ r.ret.res = "Ok"
                  THEN [kind |-> "MmapInfo", buf_len |-> buf_len, mem_map |-> r.ret.value]
                  ELSE connector
  /\ last' = [op |-> "try_with_bufmap", buf_len |-> buf_len, map |-> map,
              ret |-> r.ret]
  /\ UNCHANGED <<fileVars>>

TryWithBufmapMut(buf_len, map, checks) ==
  LET r == try_with_bufmap_mut(buf_len, map, checks) IN
  /\ ~panicked
  /\ connector = NoConnector
  /\ panicked' = r.panic
  /\ connector' = IF ~r.panic /\ r.ret.res = "Ok"
                  THEN [kind |-> "MmapInfoMut", buf_len |-> buf_len, mem_map |-> r.ret.value]
                  ELSE connector
  /\ last' = [op |-> "try_with_bufmap_mut", buf_len |-> buf_len, map |-> map,
              ret |-> r.ret]
  /\ UNCHANGED <<fileVars>>

NextMmap ==
  \/ \E buf_len \in BufLens, map \in InputMaps, checks \in BOOLEAN :
        TryWithBufmap(buf_len, map, checks)
  \/ \E buf_len \in BufLens, map \in InputMaps, checks \in BOOLEAN :
        TryWithBufmapMut(buf_len, map, checks)

SpecMmap == InitVat /\ [][NextMmap]_vars

(***************************************************************************)
(* Claims about the cached_read stage (SpecRead).                          *)
(***************************************************************************)
Finalised == lastDone.by \in {"cache", "connector"}

\* C1: cache transparency: every caller buffer finalised through cached_read
\* (by a copy from a slot or by the connector) holds exactly the bytes an
\* uncached connector read of the same address returns.
C1_CacheTransparency ==
  Finalised =>
    lastDone.item.buf.data =
      phys_read_raw_into(lastDone.item.addr.address, Len(lastDone.item.buf.data))

\* C2: the slot-fill items in flight at the same time never include two items
\* that reference the same slot buffer for different page addresses.
C2_NoAliasedFills ==
  \A i, j \in 1 .. Len(inflight) :
     ( /\ IsFill(inflight[i]) /\ IsFill(inflight[j])
       /\ inflight[i].buf.idx = inflight[j].buf.idx )
     => inflight[i].addr.address = inflight[j].addr.address

\* C3: after the iterator was dropped with emitted slot fills unexecuted,
\* every slot the validator reports valid holds the bytes of the page at
\* its slot_addr.
C3_DropLeavesConsistent ==
  last.op = "drop" =>
    \A i \in Slots :
       is_slot_valid(self.validator, i) =>
          self.cache[i] = phys_read_raw_into(self.address[i], self.page_size)

(***************************************************************************)
(* Claims about the public operations (Spec).                              *)
(***************************************************************************)
IsCall(op) == last.op = op
PreIdx == page_index(last.pre, last.addr)
PreAligned == as_page_aligned(last.addr, last.pre.page_size)
PrePending == last.pre.address_once_validated[PreIdx]
PreHit == try_page(last.pre, last.addr)
PreCacheable == contains(last.pre.page_type_mask, last.page_type)

\* the table state (slot_addr, slot_pending_addr, validator) is as before
TableUnchanged ==
  /\ self.address = last.pre.address
  /\ self.address_once_validated = last.pre.address_once_validated
  /\ self.validator = last.pre.validator

\* every slot but the one of the call is as before
OtherSlotsUnchanged ==
  \A i \in Slots :
     i # PreIdx =>
       /\ self.address[i] = last.pre.address[i]
       /\ self.address_once_validated[i] = last.pre.address_once_validated[i]
       /\ self.validator[i] = last.pre.validator[i]
       /\ self.cache[i] = last.pre.cache[i]

\* C4: while slot_pending_addr[i] = X, every cached_page_mut call for another
\* page of slot i returns valid = false and should_validate = false, the page
\* resident and valid in the slot included.
C4_PendingBlocksOthers ==
  ( /\ IsCall("cached_page_mut")
    /\ PrePending # INVALID
    /\ PrePending # PreAligned )
  => (~last.entry.valid /\ ~last.entry.should_validate)

\* C5: aliasing safety: the should_validate entries handed out since the last
\* validate_page / invalidate_page of a slot never point at the same slot
\* buffer for different page addresses.
C5_AliasingSafety ==
  \A e1, e2 \in outstanding : e1[1] = e2[1] => e1[2] = e2[2]

\* a holds should_validate for the slot and the call for b was refused it
C5_Witness ==
  /\ IsCall("cached_page_mut")
  /\ ~last.entry.valid /\ ~last.entry.should_validate
  /\ \E e \in outstanding : e[1] = last.entry.buf /\ e[2] # last.entry.address

\* C6: cached_page_mut on a hit returns valid = true, should_validate = false
\* and address = aligned(addr), and changes neither slot_addr,
\* slot_pending_addr nor the validator state of any slot.
C6_Hit ==
  (IsCall("cached_page_mut") /\ PreHit)
  => /\ last.entry.valid
     /\ ~last.entry.should_validate
     /\ last.entry.address = PreAligned
     /\ TableUnchanged

\* a hit on an address that is not page aligned, with a reservation pending
C6_Witness ==
  /\ IsCall("cached_page_mut") /\ PreHit
  /\ last.addr # PreAligned
  /\ PrePending # INVALID

\* C7: cached_page_mut on a miss returns valid = false; an unset
\* slot_pending_addr becomes aligned(addr) with should_validate = true; one
\* that already equals aligned(addr) stays and should_validate = true.
C7_Miss ==
  (IsCall("cached_page_mut") /\ ~PreHit)
  => /\ ~last.entry.valid
     /\ PrePending = INVALID =>
          /\ self.address_once_validated[PreIdx] = PreAligned
          /\ last.entry.should_validate
     /\ PrePending = PreAligned =>
          /\ self.address_once_validated[PreIdx] = PreAligned
          /\ last.entry.should_validate

\* a second request joins the reservation of the same page
C7_Witness ==
  /\ IsCall("cached_page_mut") /\ ~PreHit
  /\ PrePending = PreAligned
  /\ last.entry.should_validate

\* cached_page(0x0000) then cached_page(0x2000) on a fresh cache of two
\* 4096-byte slots
CollisionBypassScenario ==
  LET c0 == new(4096, 8192, {"WRITEABLE"}, <<>>)
      r1 == cached_page_mut(c0, 0)
      r2 == cached_page_mut(r1.self, 8192)
  IN /\ r1.entry.should_validate /\ ~r1.entry.valid
     /\ r2.entry.buf = r1.entry.buf
     /\ ~r2.entry.should_validate /\ ~r2.entry.valid
     /\ \A i \in DOMAIN c0.address :
          /\ r2.self.address[i] = r1.self.address[i]
          /\ r2.self.address_once_validated[i] = r1.self.address_once_validated[i]
          /\ r2.self.validator[i] = r1.self.validator[i]

\* C8: collision bypass: a miss whose slot is reserved for a different page
\* returns valid = false and should_validate = false and leaves slot_addr,
\* slot_pending_addr and the validator unchanged; so does the scenario.
C8_CollisionBypass ==
  /\ CollisionBypassScenario
  /\ ( /\ IsCall("cached_page_mut") /\ ~PreHit
       /\ PrePending # INVALID /\ PrePending # PreAligned )
     => /\ ~last.entry.valid
        /\ ~last.entry.should_validate
        /\ TableUnchanged

C8_Witness ==
  /\ IsCall("cached_page_mut") /\ ~PreHit
  /\ PrePending # INVALID /\ PrePending # PreAligned
  /\ len(self) = 2

ValidatePost ==
  /\ self.address[PreIdx] = PreAligned
  /\ is_slot_valid(self.validator, PreIdx)
  /\ self.address_once_validated[PreIdx] = INVALID
  /\ self.cache[PreIdx] = last.pre.cache[PreIdx]
  /\ OtherSlotsUnchanged

C10_Invalidate ==
  (IsCall("invalidate_page") /\ PreCacheable)
  => /\ self.address[PreIdx] = NULL
     /\ ~is_slot_valid(self.validator, PreIdx)
     /\ self.address_once_validated[PreIdx] = INVALID
     /\ \A a \in Addrs :
          page_index(self, a) = PreIdx => ~cached_page_mut(self, a).entry.valid
     /\ OtherSlotsUnchanged

\* a valid slot with a reservation pending is invalidated
C10_Witness ==
  /\ IsCall("invalidate_page") /\ PreCacheable
  /\ is_slot_valid(last.pre.validator, PreIdx)
  /\ PrePending # INVALID

(***************************************************************************)
(* Algebraic and frame claims about the public operations (Spec).          *)
(***************************************************************************)
\* the call is the second of two identical calls in a row
IsRepeat(op) == IsCall(op) /\ last.repeat

IsCacheableRead(c, x) ==
  /\ x.tag = "ToDo"
  /\ x.addr.page.some
  /\ is_cached_page_type(c, x.addr.page.page_type)

\* the read lies within one page
WithinPage(c, x) ==
  (x.addr.address % c.page_size) + Len(x.buf.data) <= c.page_size

\* the bytes the slot holds for the range of x
SlotRange(c, x) ==
  LET start == x.addr.address % c.page_size
  IN SubSeq(page_from_index(c, page_index(c, x.addr.address)),
            start + 1, start + Len(x.buf.data))

\* the history is: a read of a cacheable page, the connector executing all
\* that the read emitted, then a read of a sub-range of the same page
HitScenario ==
  /\ Len(trace) >= 2
  /\ IsRead(trace[1]) /\ IsRead(trace[Len(trace)])
  /\ \A k \in 2 .. Len(trace) - 1 : IsConnector(trace[k])
  /\ trace[Len(trace)].waiting = 0
  /\ IsCacheableRead(self, trace[1].item)
  /\ IsCacheableRead(self, trace[Len(trace)].item)
  /\ as_page_aligned(trace[1].item.addr.address, self.page_size)
       = as_page_aligned(trace[Len(trace)].item.addr.address, self.page_size)
  /\ WithinPage(self, trace[Len(trace)].item)

\* the connector's reads of one whole page at its page-aligned address
PageReads(page) ==
  {k \in 1 .. Len(trace) :
      /\ IsConnector(trace[k])
      /\ trace[k].address = page
      /\ trace[k].len = self.page_size}

\* C12: after a cacheable page was read once through cached_read and the
\* connector completed that batch, a read of a sub-range of the page is
\* emitted as Done(Ok) with the bytes of the slot and nothing for the
\* connector, and over both reads the connector has executed exactly one
\* page-sized read at the page-aligned address.
C12_HitScenario ==
  HitScenario =>
    LET x == trace[Len(trace)].item IN
    /\ ~panicked
    /\ last.ret = <<DoneOk(x.addr, OutBuf(SlotRange(self, x)))>>
    /\ Cardinality(PageReads(as_page_aligned(x.addr.address, self.page_size))) = 1

\* the entry cached_page_mut returned to the stage for the item
ItemEntry == cached_page_mut(last.pre, last.item.addr.address).entry
ItemIdx == page_index(last.pre, last.item.addr.address)
ItemAligned == as_page_aligned(last.item.addr.address, last.pre.page_size)

\* the stage took the miss path for the item: should_validate = true
MissPath ==
  /\ IsCall("cached_read")
  /\ IsCacheableRead(last.pre, last.item)
  /\ ~ItemEntry.valid
  /\ ItemEntry.should_validate

\* C13: on the miss path the stage calls validate_page and the only ToDo it
\* sends to the connector is the page-aligned read into the slot buffer; the
\* caller's buffer is not sent to the connector as a read of its own.
C13_MissPath ==
  MissPath =>
    /\ ~panicked
    /\ self.address[ItemIdx] = ItemAligned
    /\ is_slot_valid(self.validator, ItemIdx)
    /\ self.address_once_validated[ItemIdx] = INVALID
    /\ SelectToDo(last.ret)
         = <<ToDo(PhysicalAddress(ItemAligned, None), SlotBuf(ItemIdx))>>

\* C14: every copy from a slot to a caller buffer lies within one page: a
\* cacheable read that crosses a page boundary and finds its first page
\* cached completes without an access outside the slot.
C14_CrossPage ==
  ( /\ IsCall("cached_read")
    /\ IsCacheableRead(last.pre, last.item)
    /\ ~WithinPage(last.pre, last.item)
    /\ ItemEntry.valid )
  => ~panicked

\* the item is a ToDo without a page descriptor or of a page type outside
\* the mask
Uncacheable(c, x) ==
  /\ x.tag = "ToDo"
  /\ \/ ~x.addr.page.some
     \/ ~contains(c.page_type_mask, x.addr.page.page_type)

\* C15: an inbound ToDo without a page descriptor, or with a page type that
\* is not contained in page_type_mask, is forwarded unchanged as the one
\* output item, and slot_addr, slot_pending_addr, the validator and the slot
\* bytes stay as they were.
C15_ForwardUncacheable ==
  (IsCall("cached_read") /\ Uncacheable(last.pre, last.item))
  => /\ ~panicked
     /\ last.ret = <<last.item>>
     /\ self = last.pre

\* a read of a page type outside the mask is forwarded although the page of
\* its address is cached and valid
C15_Witness ==
  /\ IsCall("cached_read") /\ Uncacheable(last.pre, last.item)
  /\ last.item.addr.page.some
  /\ try_page(last.pre, last.item.addr.address)
  /\ last.ret = <<last.item>>

\* C16: a Done item entering cached_read or split_to_chunks is emitted
\* exactly once, unchanged, and the cache state stays as it was.
C16_DonePreserved ==
  ( /\ last.op \in {"cached_read", "split_to_chunks"}
    /\ last.item.tag = "Done" )
  => /\ ~panicked
     /\ last.ret = <<last.item>>
     /\ self = last.pre

\* slot i is valid after the operation and was not valid with the same page
\* before it
BecameValid(i) ==
  /\ is_slot_valid(self.validator, i)
  /\ \/ ~is_slot_valid(last.pre.validator, i)
     \/ last.pre.address[i] # self.address[i]

RECURSIVE ShiftRight(_, _)
ShiftRight(a, k) == IF k = 0 THEN a ELSE ShiftRight(a \div 2, k - 1)

\* log2 of a power of two
RECURSIVE Log2(_)
Log2(n) == IF n <= 1 THEN 0 ELSE 1 + Log2(n \div 2)

\* the slot index as the claim gives it
ShiftIndex(c, a) == ShiftRight(a, Log2(c.page_size)) % len(c)

\* page_index on caches of 4096-byte pages with 1, 3 and 16 slots
PageIndexScenario ==
  \A n \in {1, 3, 16} :
    LET c == new(4096, n * 4096 + 100, {}, <<>>) IN
    /\ len(c) = n
    /\ \A a \in {0, 1, 4095, 4096, 8191, 8192, 12345, 65535, 65536,
                 1048575, 1048576, 305419896} :
          /\ page_index(c, a) = ShiftIndex(c, a)
          /\ page_index(c, a) = page_index(c, as_page_aligned(a, 4096))
          /\ page_index(c, a) = page_index(c, as_page_aligned(a, 4096) + 4095)

\* C20: page_index(a) = (a >> log2(page_size)) mod N; all addresses of one
\* page map to the same slot, the index is below N, and the slot
\* cached_page_mut hands out is the one of that index.
C20_PageIndex ==
  /\ PageIndexScenario
  /\ \A a \in Addrs :
        /\ page_index(self, a) = ShiftIndex(self, a)
        /\ page_index(self, a) \in 0 .. len(self) - 1
        /\ \A b \in Addrs :
              as_page_aligned(a, self.page_size) = as_page_aligned(b, self.page_size)
              => page_index(self, a) = page_index(self, b)
  /\ IsCall("cached_page_mut") => last.entry.buf = ShiftIndex(last.pre, last.addr)

\* cached_page_mut for an unaligned address of the last page, which wraps
\* around to a slot that is not the page number
C20_Witness ==
  /\ IsCall("cached_page_mut")
  /\ last.addr # PreAligned
  /\ len(last.pre) = 2
  /\ ShiftRight(last.addr, Log2(last.pre.page_size)) = 2
  /\ last.entry.buf = 0


(***************************************************************************)
\* the stage found the slot of the item reserved for another page
BypassPath ==
  /\ IsCall("cached_read")
  /\ IsCacheableRead(last.pre, last.item)
  /\ ~ItemEntry.valid
  /\ ~ItemEntry.should_validate

\* C17: for a cacheable inbound ToDo whose cached_page_mut result is neither
\* valid nor should_validate the stage emits the original ToDo alone and
\* unchanged, no slot fill, and the cache (slot_addr, slot_pending_addr,
\* validator, slot bytes) is as before: validate_page was not called and the
\* slot buffer was not written.
C17_Bypass ==
  BypassPath
  => /\ ~panicked
     /\ last.ret = <<last.item>>
     /\ self = last.pre

\* the bypassed read is for a page other than the one resident and valid in
\* the slot, which is reserved for a third
C17_Witness ==
  /\ BypassPath
  /\ last.ret = <<last.item>>
  /\ is_slot_valid(last.pre.validator, ItemIdx)
  /\ last.pre.address_once_validated[ItemIdx] # last.pre.address[ItemIdx]

(***************************************************************************)
(* Claims about construction (SpecNew).                                    *)
(***************************************************************************)
\* the cache is as new leaves it: nothing cached, nothing reserved, all zero
IsFresh(c) ==
  /\ DOMAIN c.address = 0 .. len(c) - 1
  /\ DOMAIN c.address_once_validated = DOMAIN c.address
  /\ DOMAIN c.cache = DOMAIN c.address
  /\ DOMAIN c.validator = DOMAIN c.address
  /\ \A i \in DOMAIN c.address :
        /\ c.address[i] = INVALID
        /\ c.address_once_validated[i] = INVALID
        /\ ~is_slot_valid(c.validator, i)
        /\ Len(c.cache[i]) = c.page_size
        /\ \A j \in 1 .. c.page_size : c.cache[i][j] = 0

\* the cache constructed with capacity last.size has N = size / page_size
\* slots (integer division) and is fresh, the validator holding N slots
FreshAfterNew ==
  IsCall("new") =>
    /\ len(self) * self.page_size <= last.size
    /\ last.size < (len(self) + 1) * self.page_size
    /\ IsFresh(self)

\* the first cached_page_mut on the fresh cache returned a miss to validate
\* with an all-zero buffer
FirstMiss ==
  /\ ~panicked
  /\ ~last.entry.valid
  /\ last.entry.should_validate
  /\ last.entry.address = PreAligned
  /\ page_from_index(last.pre, last.entry.buf) = Zeros(last.pre.page_size)

\* C19 as claimed: a cache of any capacity C is fresh with N = C / page_size
\* slots, and the first cached_page_mut for any address returns
\* valid = false, should_validate = true with an all-zero buffer.
C19_FreshAnyCapacity ==
  /\ FreshAfterNew
  /\ (IsCall("cached_page_mut") /\ IsFresh(last.pre)) => FirstMiss

\* C19 as amended: the same for a capacity of at least one page; a cache of
\* a smaller capacity is fresh with no slot, and cached_page_mut panics.
C19_FreshCache ==
  /\ FreshAfterNew
  /\ (IsCall("cached_page_mut") /\ IsFresh(last.pre) /\ len(last.pre) >= 1)
       => FirstMiss
  /\ (IsCall("cached_page_mut") /\ len(last.pre) = 0) => panicked

\* the first cached_page_mut, for an unaligned address of a page that maps
\* to the second slot
C19_Witness ==
  /\ IsCall("cached_page_mut") /\ IsFresh(last.pre) /\ FirstMiss
  /\ last.addr # PreAligned
  /\ last.entry.buf = 1

(***************************************************************************)
(* Claims about the translator (SpecVat).                                  *)
(***************************************************************************)
\* neither an x86 nor an ARM translator can be built for the translator
NoWalker(t) ==
  /\ ~x86_new_translator(t.dtb, t.sys_arch)
  /\ ~arm_new_translator_nonsplit(t.dtb, t.sys_arch)

\* C21: when no walker matches the translator, virt_to_phys_iter returns
\* and reports InvalidArchitecture to the caller for the entries of the
\* batch; the program does not abort.
C21_InvalidArchitecture ==
  (IsCall("virt_to_phys_iter") /\ NoWalker(translator))
  => /\ ~panicked
     /\ last.out = <<>>
     /\ Len(last.out_fail) = Len(last.addrs)
     /\ \A k \in 1 .. Len(last.out_fail) : last.out_fail[k].err = "InvalidArchitecture"

\* DTB values beyond those of the translators of SpecVat
DtbSamples == Dtbs \cup {0, 1, 4095, 1748992, 1753087, 1753088, 2147479552, 2147483647}

\* C22: translation_table_id is DTB >> 12 whatever the address argument, so
\* two translators have the same id exactly when their DTBs lie in the same
\* 4 KiB page.
C22_TableId ==
  /\ IsCall("translation_table_id") => last.ret = ShiftRight(translator.dtb, 12)
  /\ \A d1, d2 \in DtbSamples, a1, a2 \in VirtAddrs :
        LET t1 == [kind |-> "Win32VirtualTranslate", sys_arch |-> "x64", dtb |-> d1]
            t2 == [kind |-> "Win32VirtualTranslate", sys_arch |-> "x64", dtb |-> d2]
        IN /\ translation_table_id(t1, a1) = ShiftRight(d1, 12)
           /\ (translation_table_id(t1, a1) = translation_table_id(t2, a2))
                <=> (as_page_aligned(d1, 4096) = as_page_aligned(d2, 4096))

\* the id was asked with an address of another page than the one of the
\* DTB, which is not page-aligned
C22_Witness ==
  /\ IsCall("translation_table_id")
  /\ translator.dtb = 8191
  /\ last.address = 8197
  /\ last.ret = 1

\* C23: virt_to_phys runs the batched walk on the one address and returns
\* Ok(p), p the first physical address given to the success sink, when there
\* is one, and otherwise Err(e), e the error of the last failure; a mapped
\* address yields Ok and an unmapped address yields Err.
C23_VirtToPhys ==
  IsCall("virt_to_phys") =>
    LET w == virt_to_phys_iter(translator, <<[addr |-> last.addr, buf |-> 1]>>) IN
    /\ ~panicked
    /\ w.out # <<>> => last.ret = Ok(w.out[1].phys)
    /\ w.out = <<>> => /\ w.out_fail # <<>>
                       /\ last.ret = Err(w.out_fail[Len(w.out_fail)].err)
    /\ PageMapped(translator.dtb, last.addr) => last.ret.res = "Ok"
    /\ ~PageMapped(translator.dtb, last.addr) => last.ret.res = "Err"

(***************************************************************************)
(* Claims about the file connector (SpecFile).                             *)
(***************************************************************************)
\* the memory map covers guest address a
Mapped(mem_map, a) ==
  \E k \in 1 .. Len(mem_map) : mem_map[k].base <= a /\ a < mem_map[k].base + mem_map[k].size

\* a read of one entry without any failure of the reader other than the end
\* of the file, right after a write of one entry at the same mapped address
\* that returned Ok and carried at least as many bytes
RoundTrip ==
  /\ IsCall("phys_read_raw_list")
  /\ last.fault = NoFault
  /\ Len(last.data) = 1
  /\ last.prev.op = "phys_write_raw_list"
  /\ last.prev.ret = OkUnit
  /\ Len(last.prev.data) = 1
  /\ last.prev.data[1].addr = last.data[1].addr
  /\ Len(last.data[1].buf) <= Len(last.prev.data[1].buf)
  /\ Mapped(connector.mem_map, last.data[1].addr)

\* C24: a read of len bytes at a mapped address a that follows a write of
\* bytes at a, len <= |bytes|, returns Ok and the first len bytes of bytes.
C24_RoundTrip ==
  RoundTrip =>
    /\ last.ret = OkUnit
    /\ \A i \in 1 .. Len(last.data[1].buf) :
          last.out[1].buf[i] = last.prev.data[1].buf[i]

\* C25: a failed seek is reported with the seek error kind, a failed read
\* with the read error kind and a failed write with the write error kind; a
\* failed read_exact is never reported with the write error kind.
C25_ErrorKinds ==
  (IsCall("phys_read_raw_list") \/ IsCall("phys_write_raw_list")) =>
    /\ last.failed # "none" => last.ret = ErrConnector(KindOf(last.failed))
    /\ last.failed = "read_exact" => last.ret # ErrConnector("UnableToWriteFile")

\* C26: a batch with a range the memory map does not cover is rejected with
\* an OutOfBounds failure: the call does not return Ok.
C26_UnmappedRejected ==
  ((IsCall("phys_read_raw_list") \/ IsCall("phys_write_raw_list"))
   /\ map_iter(connector.mem_map, last.data).out_fail # <<>>) =>
    /\ last.ret.res = "Err"
    /\ last.ret.error.kind = "OutOfBounds"

(***************************************************************************)
(* Claims about the chunk splitter (SpecSplit).                            *)
(***************************************************************************)
RECURSIVE Concat(_)
Concat(bufs) == IF bufs = <<>> THEN <<>> ELSE Head(bufs) \o Concat(Tail(bufs))

\* split_to_chunks was given a ToDo item
IsSplit == IsCall("split_to_chunks") /\ last.item.tag = "ToDo"
ChunkAddr(k) == last.ret[k].addr.address
ChunkLen(k) == Len(last.ret[k].buf.data)

\* C27: the sub-buffers split_to_chunks emits, concatenated in order, are the
\* input buffer; each sub-range lies inside one page; the addresses are
\* strictly increasing, the first is the start address and every later one
\* is page-aligned.
C27_SplitterLaw ==
  IsSplit =>
    LET ps == last.pre.page_size
        n == Len(last.ret)
    IN /\ ~panicked
       /\ Concat([k \in 1 .. n |-> last.ret[k].buf.data]) = last.item.buf.data
       /\ \A k \in 1 .. n :
             /\ ChunkLen(k) >= 1
             /\ ChunkAddr(k) \div ps = (ChunkAddr(k) + ChunkLen(k) - 1) \div ps
       /\ \A k \in 1 .. n - 1 : ChunkAddr(k) < ChunkAddr(k + 1)
       /\ n >= 1 /\ ChunkAddr(1) = last.item.addr.address
       /\ \A k \in 2 .. n : ChunkAddr(k) % ps = 0

\* an item that starts inside a page and is split into more than two chunks
C27_Witness ==
  /\ IsSplit
  /\ ~panicked
  /\ last.item.addr.address % last.pre.page_size # 0
  /\ Len(last.ret) >= 3
  /\ last.pre.page_size = PageSize

\* the scenario: page size 4096, 10000 bytes from address 4090
IsScenario ==
  /\ IsSplit
  /\ last.pre.page_size = 4096
  /\ last.item.addr.address = 4090
  /\ Len(last.item.buf.data) = 10000

\* C28: 10000 bytes from address 4090 with page size 4096 are split into
\* four sub-ranges, of lengths 6, 4096, 4096 and 1712, at addresses 4090,
\* 4096, 8192 and 12288.
C28_SplitterScenario ==
  IsScenario =>
    /\ ~panicked
    /\ Len(last.ret) = 4
    /\ <<ChunkLen(1), ChunkLen(2), ChunkLen(3), ChunkLen(4)>> = <<6, 4096, 4096, 1712>>
    /\ <<ChunkAddr(1), ChunkAddr(2), ChunkAddr(3), ChunkAddr(4)>> = <<4090, 4096, 8192, 12288>>

\* C28, with the lengths that sum to 10000: the four sub-ranges have the
\* lengths 6, 4096, 4096 and 1802, at addresses 4090, 4096, 8192 and 12288.
C28_ScenarioLengths ==
  IsScenario =>
    /\ ~panicked
    /\ Len(last.ret) = 4
    /\ <<ChunkLen(1), ChunkLen(2), ChunkLen(3), ChunkLen(4)>> = <<6, 4096, 4096, 1802>>
    /\ <<ChunkAddr(1), ChunkAddr(2), ChunkAddr(3), ChunkAddr(4)>> = <<4090, 4096, 8192, 12288>>

C28_Witness == IsScenario /\ ~panicked /\ Len(last.ret) = 4

(***************************************************************************)
(* Claims about cached_read_single (SpecSingle).                           *)
(***************************************************************************)
\* C29: when cached_read_single returns Ok, out holds the bytes of physical
\* memory from the address on, whatever the page descriptor and the state
\* of the slots: no chunk is left unread.
C29_FillsOut ==
  (IsCall("cached_read_single") /\ last.ret = OkUnit) =>
    /\ ~panicked
    /\ last.out = phys_read_raw_into(last.addr.address, Len(last.out))

(***************************************************************************)
(* Claims about abandoned reservations (Spec).                             *)
(***************************************************************************)
\* cached_page_mut missed on a slot whose reservation was left set
MissOnReserved ==
  /\ IsCall("cached_page_mut")
  /\ ~PreHit
  /\ PrePending # INVALID

\* C30: a reservation left set on a slot does not block it: a cached_page_mut
\* that misses on the slot, for the reserved page or for another page of the
\* slot, obtains should_validate = true.
C30_Renegotiates ==
  MissOnReserved => last.entry.should_validate

\* the slot holds the bytes of the page it is valid for
SlotTrue(i) ==
  page_from_index(self, i) = phys_read_raw_into(self.address[i], self.page_size)

\* the connector read failed while cached_read_single filled a slot
FillFailed == IsCall("cached_read_single") /\ last.fill_failed # INVALID

\* C31: when the connector read fails during the slot fill for page A, the
\* error is returned, A is not validated, and the slot, if it is still
\* valid for the page B it held, holds B's true bytes: a later read of B
\* misses or returns them.
C31_FailedFillKeepsSlot ==
  FillFailed =>
    LET i == page_index(self, last.fill_failed) IN
    /\ last.ret = ErrRead
    /\ ~try_page(self, last.fill_failed)
    /\ is_slot_valid(self.validator, i) => SlotTrue(i)

(***************************************************************************)
(* Claims about both read paths (SpecBoth).                                *)
(***************************************************************************)
\* the closure of cached_read called validate_page for its item: a ToDo of
\* a cached page type that missed and was granted should_validate
ReadValidates ==
  /\ IsCall("cached_read")
  /\ last.item.tag = "ToDo"
  /\ last.item.addr.page.some
  /\ contains(last.pre.page_type_mask, last.item.addr.page.page_type)
  /\ ~try_page(last.pre, last.item.addr.address)
  /\ cached_page_mut(last.pre, last.item.addr.address).entry.should_validate

\* C32: at every validate_page call of cached_read and cached_read_single
\* the slot's reservation is the page being validated: the assertion of
\* validate_page holds, and no build stops at it.
C32_AssertionHolds ==
  /\ ReadValidates =>
       validate_assert(cached_page_mut(last.pre, last.item.addr.address).self,
                       last.item.addr.address)
  /\ (IsCall("cached_read") /\ panicked) =>
       /\ last.item.tag = "ToDo"
       /\ try_page(last.pre, last.item.addr.address)
  /\ IsCall("cached_read_single") => ~panicked

\* cached_read validated a page whose reservation had been left by an
\* earlier call
C32_Witness ==
  /\ ReadValidates
  /\ ~panicked
  /\ last.pre.address_once_validated[page_index(last.pre, last.item.addr.address)]
       = as_page_aligned(last.item.addr.address, last.pre.page_size)
  /\ try_page(self, last.item.addr.address)

(***************************************************************************)
(* Claims about the order of a batched file read (SpecFile).               *)
(***************************************************************************)
\* the mapped segments of the last batch
LastSegs == map_iter(connector.mem_map, last.data).out

\* the seek or the read of the k-th segment fails
SegFails(k) ==
  \/ last.fault.at = k /\ last.fault.kind \in {"seek", "io"}
  \/ LastSegs[k].file_off + LastSegs[k].len > Len(connector.reader)

\* the first segment that fails, 0 when none does
FirstFail ==
  IF \E k \in 1 .. Len(LastSegs) : SegFails(k)
  THEN CHOOSE k \in 1 .. Len(LastSegs) :
         SegFails(k) /\ \A j \in 1 .. k - 1 : ~SegFails(j)
  ELSE 0

\* the buffer of the k-th segment holds the bytes of the file
SegRead(k) ==
  LET s == LastSegs[k] IN
  \A i \in 1 .. s.len : last.out[s.idx].buf[s.pos + i] = connector.reader[s.file_off + i]

\* the buffer of the k-th segment is as the caller passed it
SegUntouched(k) ==
  LET s == LastSegs[k] IN
  \A i \in 1 .. s.len : last.out[s.idx].buf[s.pos + i] = last.data[s.idx].buf[s.pos + i]

IsText(b, str) == b.text /\ b.str = str

\* the records whose pdb file name and guid are those of the requested guid
GuidRecords(b) ==
  IF b.guid.is_some
  THEN { k \in 1 .. Len(offsets_bin) :
           /\ IsText(offsets_bin[k].pdb_file_name, b.guid.value.file_name)
           /\ IsText(offsets_bin[k].pdb_guid, b.guid.value.guid) }
  ELSE {}

\* the records of the requested major and minor version that are not of a
\* newer build
VersionRecords(b) ==
  IF b.winver.is_some
  THEN { k \in 1 .. Len(offsets_bin) :
           /\ offsets_bin[k].nt_major_version = b.winver.value.nt_major_version
           /\ offsets_bin[k].nt_minor_version = b.winver.value.nt_minor_version
           /\ offsets_bin[k].nt_build_number <= b.winver.value.nt_build_number }
  ELSE {}

First(S) == CHOOSE k \in S : \A j \in S : k <= j

\* of the records S the one of the highest build, the last in the file
\* among equals
Newest(S) ==
  CHOOSE k \in S :
    \A j \in S : \/ offsets_bin[j].nt_build_number < offsets_bin[k].nt_build_number
                 \/ (offsets_bin[j].nt_build_number = offsets_bin[k].nt_build_number
                     /\ j <= k)

\* C34: build fails at once when neither guid nor winver is set; otherwise
\* an Ok of the symbol store wins (it needs a guid and an enabled store),
\* then the first record of the offset list with the requested pdb file
\* name and guid, then the closest record of the requested version; only
\* when all fail the result is the not-found error.
C34_BuildPriority ==
  IsCall("build") =>
    LET b == last.b IN
    IF ~b.guid.is_some /\ ~b.winver.is_some
    THEN last.ret = ErrOther("building win32 offsets requires either a guid or winver")
    ELSE /\ last.store.res = "Ok" => b.guid.is_some /\ b.symbol_store.is_some
         /\ last.ret =
              IF last.store.res = "Ok" THEN last.store
              ELSE IF GuidRecords(b) # {}
              THEN Ok(Win32Offsets(First(GuidRecords(b))))
              ELSE IF VersionRecords(b) # {}
              THEN Ok(Win32Offsets(Newest(VersionRecords(b))))
              ELSE ErrOther("not found")

\* the symbol store and the offset list both had an answer
C34_Witness ==
  /\ IsCall("build")
  /\ last.store.res = "Ok"
  /\ last.list.res = "Ok"
  /\ last.ret = Ok(PdbOffsets)

\* build_with_offset_list went on to the version of the request
VersionFallback ==
  /\ IsCall("build")
  /\ last.b.winver.is_some
  /\ GuidRecords(last.b) = {}

\* C35: the version fallback of build_with_offset_list returns the record
\* of the requested major and minor version with the highest build number
\* that is not above the requested one, the last in the file among equals,
\* and the not-found error when there is no such record.
C35_VersionFallback ==
  VersionFallback =>
    LET S == VersionRecords(last.b) IN
    IF S = {} THEN last.list = ErrOther("not found")
    ELSE LET k == last.list.value.offsets IN
         /\ last.list.res = "Ok"
         /\ k \in S
         /\ \A j \in S : offsets_bin[j].nt_build_number <= offsets_bin[k].nt_build_number
         /\ \A j \in S : offsets_bin[j].nt_build_number = offsets_bin[k].nt_build_number
                           => j <= k

\* three records fit the request: an older build, then the newest build
\* twice; the last of them is taken
C35_Witness ==
  /\ VersionFallback
  /\ Len(offsets_bin) = 3
  /\ VersionRecords(last.b) = {1, 2, 3}
  /\ offsets_bin[1].nt_build_number < offsets_bin[2].nt_build_number
  /\ offsets_bin[2].nt_build_number = offsets_bin[3].nt_build_number
  /\ last.list = Ok(Win32Offsets(3))

(***************************************************************************)
(* Claims about the mapped-file connector (SpecMmap).                      *)
(***************************************************************************)
IsBufmap == IsCall("try_with_bufmap") \/ IsCall("try_with_bufmap_mut")

\* C36: try_with_bufmap and try_with_bufmap_mut return MemoryMapOutOfRange
\* and build no connector when an entry has output_base >= L; otherwise
\* every entry of the result is the slice [output_base, min(output_base +
\* size, L)) of the buffer, which lies inside the buffer.
C36_InsideBuffer ==
  IsBufmap =>
    IF \E k \in 1 .. Len(last.map) : last.map[k].output_base >= last.buf_len
    THEN /\ ~panicked
         /\ last.ret = ErrOutOfRange
         /\ connector = NoConnector
    ELSE /\ ~panicked
         /\ last.ret.res = "Ok"
         /\ Len(last.ret.value) = Len(last.map)
         /\ \A k \in 1 .. Len(last.map) :
               LET e == last.map[k]
                   m == last.ret.value[k]
               IN /\ m.base = e.base
                  /\ m.start = e.output_base
                  /\ m.start + m.len = Min(e.output_base + e.size, last.buf_len)
                  /\ m.start + m.len <= last.buf_len

====
